---------------------------- MODULE Spec2Model ----------------------------
(***************************************************************************)
(* Long-audio segmentation pipeline of sherpa-onnx-r: the segment batcher, *)
(* the per-batch recognizer driver and the transcript assembler, in both   *)
(* implementations the repository holds:                                   *)
(*   - R:   batch_segments and OfflineRecognizer$transcribe_with_vad       *)
(*          (R/recognizer.R), driving transcribe_samples_                   *)
(*          (src/recognizer.cpp);                                          *)
(*   - C++: transcribe_with_vad_ (src/vad.cpp), second pass and result.    *)
(*                                                                         *)
(* Times in seconds are exact rationals [num, den] in lowest terms.  The   *)
(* sample rates and sample counts drawn below make every quotient          *)
(* n / sample_rate a small multiple of 1/2, which float (C++) and double   *)
(* (R) both represent and add without rounding, so the exact arithmetic    *)
(* here is the arithmetic the code performs on these inputs.               *)
(*                                                                         *)
(* A sample is modelled by its absolute index in the source waveform, so   *)
(* every sample of every payload is distinguishable.  A text is a sequence *)
(* of characters.                                                          *)
(***************************************************************************)
EXTENDS Integers, Sequences, FiniteSets

VARIABLES
  impl,               \* "cpp", "R" (the R pipeline) or "batch_segments" (the R function called alone)
  sample_rate,        \* sample rate of the waveform, Hz
  vad_segments,       \* segments collected from the detector: [start_sample, num_samples, samples]
  pc,                 \* position in the running function
  seg_idx,            \* batching cursor (0-based in C++, 1-based in R)
  batch_samples,      \* sample buffer of the batch being filled
  batch_start_sample, \* C++: start sample of the batch being filled
  batch_start_time,   \* R: start time of the batch being filled
  batch_duration,     \* cumulative duration of the batch being filled
  batch_members,      \* history: cursor positions (1-based) appended to the batch being filled
  batches,            \* R: the batch list; C++: history of the batches handed to the recognizer
  batch_count,        \* C++: number of batches transcribed
  batch_texts,        \* C++: per-batch text
  batch_start_times,  \* C++: per-batch start time
  batch_durations,    \* C++: per-batch duration
  lapply_i,           \* R: index of the next batch lapply hands to the recognizer
  batch_results,      \* R: per-batch list(text, start_time, duration)
  result,             \* the list returned to the caller, or NoResult
  num_streams,        \* history: recognizer streams created
  recognized,         \* history: the recognitions asked of the engine, [samples, ok, text]
  error,              \* message of the error that ended the call, or NoError
  max_arg,            \* R: argument max_duration of batch_segments
  request,            \* the call of OfflineRecognizer$transcribe
  vad_args,           \* the call of vad()
  calls,              \* history: calls made of the engine and of the package's helpers
  samples_size,       \* the number of samples of the waveform
  vad_window_size,    \* C++: samples per detector feed call
  i,                  \* C++: feed cursor of the first pass
  is_eof,             \* C++: the detector has been flushed
  vad,                \* C++: the detector instance: "none", "null", "live" or "destroyed"
  vad_queue,          \* C++: the segments the detector has ready
  vad_log,            \* history: the calls made on the detector
  handle              \* the external pointer of a recognizer and what the engine did for it

vars == <<impl, sample_rate, vad_segments, pc, seg_idx, batch_samples,
          batch_start_sample, batch_start_time, batch_duration, batch_members,
          batches, batch_count, batch_texts, batch_start_times, batch_durations,
          lapply_i, batch_results, result, num_streams, recognized, error,
          max_arg, request, vad_args, calls, samples_size, vad_window_size,
          i, is_eof, vad, vad_queue, vad_log, handle>>

\* What the second pass and the R batcher and driver never write.
entry_vars == <<max_arg, request, vad_args, calls, samples_size,
                vad_window_size, i, is_eof, vad, vad_queue, vad_log, handle>>

----------------------------------------------------------------------------
(* Bounds and inputs *)

\* Longest segment sequence the detector hands over.
MaxSegs == 3

\* Longest text the recognizer returns, and most batch texts, in SpecAssemble.
MaxTextLen == 2
MaxTexts == 3

\* Sample rates of the waveform.
SampleRates == {1, 2}

\* Segment lengths in whole seconds; a segment may also hold 0 or 1 sample.
SegSeconds == {10, 14, 15, 40}

\* Silence, in samples, before every segment.
Gaps == {0, 3}

\* Characters of a recognised text.
Chars == {"a", " "}

NumSamplesChoices(sr) == {0, 1} \cup {s * sr : s \in SegSeconds}

NoResult == [none |-> TRUE]

----------------------------------------------------------------------------
(* Exact seconds *)

RECURSIVE GCD(_, _)
GCD(a, b) == IF b = 0 THEN a ELSE GCD(b, a % b)

\* n / d, in lowest terms (d > 0, n >= 0).
Rat(n, d) == LET g == GCD(n, d) IN [num |-> n \div g, den |-> d \div g]

RatAdd(a, b) == Rat(a.num * b.den + b.num * a.den, a.den * b.den)

RatGT(a, b) == a.num * b.den > b.num * a.den

RatLE(a, b) == ~RatGT(a, b)

Zero == Rat(0, 1)

\* static const float MAX_BATCH_DURATION = 29.0f
MAX_BATCH_DURATION == 29

\* batch_segments(vad_result$segments, max_duration = 29.0)
max_duration == 29

----------------------------------------------------------------------------
(* Sequences *)

RECURSIVE SumSeq(_)
SumSeq(s) == IF s = <<>> THEN 0 ELSE Head(s) + SumSeq(Tail(s))

RECURSIVE Flatten(_)
Flatten(ss) == IF ss = <<>> THEN <<>> ELSE Head(ss) \o Flatten(Tail(ss))

SeqsUpTo(S, n) == UNION {[1..k -> S] : k \in 0..n}

----------------------------------------------------------------------------
(* Detector output *)

\* vs.samples.assign(segment->samples, segment->samples + segment->n): the
\* samples start .. start + n - 1 of the waveform.
Payload(start, n) == [k \in 1..n |-> start + k - 1]

\* One collected segment.
VadSegment(start, n) ==
  [start_sample |-> start, num_samples |-> n, samples |-> Payload(start, n)]

\* The segments of lengths lens, each preceded by gap samples of silence.
MkSegments(lens, gap) ==
  [k \in 1..Len(lens) |->
     VadSegment(k * gap + SumSeq(SubSeq(lens, 1, k - 1)), lens[k])]

\* The segment list vad() returns to R (extract_vad_segments_): samples,
\* start_time = start_sample / sample_rate, duration = sample_count / sample_rate.
RSegment(vs, sr) ==
  [samples |-> vs.samples,
   start_time |-> Rat(vs.start_sample, sr),
   duration |-> Rat(vs.num_samples, sr)]

segments == [k \in 1..Len(vad_segments) |-> RSegment(vad_segments[k], sample_rate)]


----------------------------------------------------------------------------
(* Texts *)

\* The opaque recognizer may return any text.  In the pipeline it is drawn
\* from RecognizerTexts; SpecAssemble draws from every text up to MaxTextLen.
RecognizerTexts == {<<>>, <<"a">>}

Texts == SeqsUpTo(Chars, MaxTextLen)

\* R's default whitespace class of trimws: "[ \t\r\n]".
Whitespace == {" ", "\t", "\r", "\n"}

RECURSIVE TrimLeft(_)
TrimLeft(x) ==
  IF x # <<>> /\ Head(x) \in Whitespace THEN TrimLeft(Tail(x)) ELSE x

RECURSIVE TrimRight(_)
TrimRight(x) ==
  IF x # <<>> /\ x[Len(x)] \in Whitespace
    THEN TrimRight(SubSeq(x, 1, Len(x) - 1))
    ELSE x

\* trimws(x), which = "both"
trimws(x) == TrimRight(TrimLeft(x))

\* nzchar(x)
nzchar(x) == Len(x) > 0

\* x[keep] for a logical index vector keep.
RECURSIVE Subset1(_, _)
Subset1(x, keep) ==
  IF x = <<>> THEN <<>>
  ELSE (IF Head(keep) THEN <<Head(x)>> ELSE <<>>) \o Subset1(Tail(x), Tail(keep))

\* paste(x, collapse = sep)
RECURSIVE paste(_, _)
paste(x, sep) ==
  IF x = <<>> THEN <<>>
  ELSE IF Len(x) = 1 THEN Head(x)
  ELSE Head(x) \o sep \o paste(Tail(x), sep)

\* non_empty <- nzchar(trimws(segment_texts))
\* full_text <- trimws(paste(segment_texts[non_empty], collapse = " "))
RFullText(segment_texts) ==
  LET non_empty == [k \in 1..Len(segment_texts) |-> nzchar(trimws(segment_texts[k]))]
  IN trimws(paste(Subset1(segment_texts, non_empty), <<" ">>))

\* One turn of the loop "for j" that builds full_text in transcribe_with_vad_.
CppFullTextStep(full_text, seg_text) ==
  IF seg_text = <<>> THEN full_text
  ELSE (IF full_text # <<>> THEN full_text \o <<" ">> ELSE full_text) \o seg_text

RECURSIVE CppFullTextFrom(_, _, _)
CppFullTextFrom(texts, j, full_text) ==
  IF j > Len(texts) THEN full_text
  ELSE CppFullTextFrom(texts, j + 1, CppFullTextStep(full_text, texts[j]))

CppFullText(texts) == CppFullTextFrom(texts, 1, <<>>)

----------------------------------------------------------------------------
(* Initial states *)

\* No error has been raised.
NoError == ""

\* No recognizer handle is followed in this run.
NoHandle == [none |-> TRUE]

\* What the engine and the helpers are asked to do, counted per function.
NoCalls ==
  [read_wav |-> 0, transcribe_wav |-> 0, transcribe_with_vad |-> 0,
   download_vad_model |-> 0, extract_vad_segments |-> 0,
   CreateVoiceActivityDetector |-> 0, AcceptWaveform |-> 0, Flush |-> 0,
   DestroyVoiceActivityDetector |-> 0]

\* Bug: the stream is not destroyed after its result was read.
EngineSession_StreamLeaked ==
  <<"CreateOfflineStream", "AcceptWaveformOffline", "DecodeOfflineStream",
    "GetOfflineStreamResult", "DestroyOfflineRecognizerResult">>

\* The engine calls of one recognition, in the order of the code, the same in
\* transcribe_samples_ and in the second pass of transcribe_with_vad_.
EngineSession ==
  <<"CreateOfflineStream", "AcceptWaveformOffline", "DecodeOfflineStream",
    "GetOfflineStreamResult", "DestroyOfflineRecognizerResult",
    "DestroyOfflineStream">>

\* The engine calls of a transcribe_samples_ that stops: none for an empty
\* vector, else the one SherpaOnnxCreateOfflineStream that returned nullptr.
FailedSession(samples) ==
  IF samples = <<>> THEN <<>> ELSE <<"CreateOfflineStream: nullptr">>

\* One recognition on a fresh stream, as transcribe_samples_ or the second
\* pass of transcribe_with_vad_ makes it.
Recognition(samples, text) ==
  [samples |-> samples, ok |-> TRUE, text |-> text, session |-> EngineSession]

\* A recognition that ended in stop().
FailedRecognition(samples) ==
  [samples |-> samples, ok |-> FALSE, text |-> <<>>,
   session |-> FailedSession(samples)]

\* The entry points that are not part of the run have no state of their own.
InitEntry ==
  /\ error = NoError
  /\ max_arg = max_duration
  /\ request = [none |-> TRUE]
  /\ vad_args = [none |-> TRUE]
  /\ calls = NoCalls
  /\ samples_size = 0
  /\ vad_window_size = 0
  /\ i = 0
  /\ is_eof = FALSE
  /\ vad = "none"
  /\ vad_queue = <<>>
  /\ vad_log = <<>>
  /\ handle = NoHandle

InitLocals ==
  /\ batch_samples = <<>>
  /\ batch_start_sample = 0
  /\ batch_start_time = Zero
  /\ batch_duration = Zero
  /\ batch_members = <<>>
  /\ batches = <<>>
  /\ batch_count = 0
  /\ batch_texts = <<>>
  /\ batch_start_times = <<>>
  /\ batch_durations = <<>>
  /\ lapply_i = 1
  /\ batch_results = <<>>
  /\ result = NoResult
  /\ num_streams = 0
  /\ recognized = <<>>

\* The detector has been drained: transcribe_with_vad_ is about to start its
\* second pass, transcribe_with_vad has the result of vad(), or batch_segments
\* is entered with a segment list.
Init ==
  /\ impl \in {"cpp", "R", "batch_segments"}
  /\ sample_rate \in SampleRates
  /\ \E gap \in Gaps :
       \E lens \in SeqsUpTo(NumSamplesChoices(sample_rate), MaxSegs) :
         vad_segments = MkSegments(lens, gap)
  /\ pc = CASE impl = "cpp" -> "cpp_outer"
            [] impl = "R" -> "r_vad_done"
            [] OTHER -> "r_enter"
  /\ seg_idx = IF impl = "cpp" THEN 0 ELSE 1
  /\ InitLocals
  /\ InitEntry

----------------------------------------------------------------------------
(* transcribe_with_vad_ (C++): second pass and result *)

\* Bug: integer division, the cast to float forgotten.
CppSegDuration_IntDiv(seg, sr) == Rat(seg.num_samples \div sr, 1)

\* float seg_duration = seg.num_samples / static_cast<float>(sample_rate)
CppSegDuration(seg, sr) == Rat(seg.num_samples, sr)

\* Bug: the "batch already has a member" test is dropped.
CppBreak_NoFirstRule(samples, duration, seg_duration) ==
  RatGT(RatAdd(duration, seg_duration), Rat(MAX_BATCH_DURATION, 1))

\* Bug: the candidate alone, not the cumulative duration, is compared.
CppBreak_CandidateOnly(samples, duration, seg_duration) ==
  /\ samples # <<>>
  /\ RatGT(seg_duration, Rat(MAX_BATCH_DURATION, 1))

\* Bug: the duration so far, without the candidate, is compared.
CppBreak_WithoutCandidate(samples, duration, seg_duration) ==
  /\ samples # <<>>
  /\ RatGT(duration, Rat(MAX_BATCH_DURATION, 1))

\* Bug: ">=" for ">", a candidate that fills the batch exactly is refused.
CppBreak_AtLimit(samples, duration, seg_duration) ==
  /\ samples # <<>>
  /\ RatLE(Rat(MAX_BATCH_DURATION, 1), RatAdd(duration, seg_duration))

\* if (!batch_samples.empty() && (batch_duration + seg_duration) > MAX_BATCH_DURATION) break;
CppBreak(samples, duration, seg_duration) ==
  /\ samples # <<>>
  /\ RatGT(RatAdd(duration, seg_duration), Rat(MAX_BATCH_DURATION, 1))

\* Bug: the payload is inserted at the front of the buffer.
CppInsertAtEnd_Front(samples, seg_samples) == seg_samples \o samples

\* batch_samples.insert(batch_samples.end(), seg.samples.begin(), seg.samples.end())
CppInsertAtEnd(samples, seg_samples) == samples \o seg_samples

\* Bug: the start sample is stored without the conversion to seconds.
CppBatchStartSec_Samples(start_sample, sr) == Rat(start_sample, 1)

\* float batch_start_sec = batch_start_sample / static_cast<float>(sample_rate)
CppBatchStartSec(start_sample, sr) == Rat(start_sample, sr)

\* while (seg_idx < vad_segments.size()) { start a new batch
CppOpenBatch ==
  /\ pc = "cpp_outer"
  /\ seg_idx < Len(vad_segments)
  /\ batch_samples' = <<>>
  /\ batch_start_sample' = vad_segments[seg_idx + 1].start_sample
  /\ batch_duration' = Zero
  /\ batch_members' = <<>>
  /\ pc' = "cpp_inner"
  /\ UNCHANGED <<entry_vars, error, recognized, impl, sample_rate, vad_segments, seg_idx, batch_start_time,
                 batches, batch_count, batch_texts, batch_start_times,
                 batch_durations, lapply_i, batch_results, result, num_streams>>

\* One turn of the inner while that does not break: the segment joins the batch.
CppAddSegment ==
  /\ pc = "cpp_inner"
  /\ seg_idx < Len(vad_segments)
  /\ LET seg == vad_segments[seg_idx + 1]
         seg_duration == CppSegDuration(seg, sample_rate)
     IN /\ ~CppBreak(batch_samples, batch_duration, seg_duration)
        /\ batch_samples' = CppInsertAtEnd(batch_samples, seg.samples)
        /\ batch_duration' = RatAdd(batch_duration, seg_duration)
        /\ batch_members' = Append(batch_members, seg_idx + 1)
        /\ seg_idx' = seg_idx + 1
  /\ UNCHANGED <<entry_vars, error, recognized, impl, sample_rate, vad_segments, pc, batch_start_sample,
                 batch_start_time, batches, batch_count, batch_texts,
                 batch_start_times, batch_durations, lapply_i, batch_results,
                 result, num_streams>>

\* The inner while ends (break, or no segment left); the batch is decoded on
\* a fresh stream and its text, start and duration are stored.
CppTranscribeBatch ==
  /\ pc = "cpp_inner"
  /\ \/ seg_idx >= Len(vad_segments)
     \/ /\ seg_idx < Len(vad_segments)
        /\ CppBreak(batch_samples, batch_duration,
                    CppSegDuration(vad_segments[seg_idx + 1], sample_rate))
  /\ batch_count' = batch_count + 1
  /\ num_streams' = num_streams + 1
  /\ LET batch_start_sec == CppBatchStartSec(batch_start_sample, sample_rate)
     IN /\ batches' = Append(batches, [samples |-> batch_samples,
                                       start_time |-> batch_start_sec,
                                       duration |-> batch_duration,
                                       members |-> batch_members])
        /\ batch_start_times' = Append(batch_start_times, batch_start_sec)
  /\ batch_durations' = Append(batch_durations, batch_duration)
  /\ \E text \in RecognizerTexts :
       /\ batch_texts' = Append(batch_texts, text)
       /\ recognized' = Append(recognized, Recognition(batch_samples, text))
  /\ pc' = "cpp_outer"
  /\ UNCHANGED <<entry_vars, error, impl, sample_rate, vad_segments, seg_idx, batch_samples,
                 batch_start_sample, batch_start_time, batch_duration,
                 batch_members, lapply_i, batch_results, result>>

\* The inner while of the second pass, as a function of its locals: the
\* cursor and the batch when the loop ends.
RECURSIVE CppInnerLoop(_, _, _, _, _, _)
CppInnerLoop(segs, sr, idx, samples, duration, members) ==
  IF idx >= Len(segs)
  THEN [seg_idx |-> idx, samples |-> samples, duration |-> duration,
        members |-> members]
  ELSE LET seg == segs[idx + 1]
           seg_duration == CppSegDuration(seg, sr)
       IN IF CppBreak(samples, duration, seg_duration)
          THEN [seg_idx |-> idx, samples |-> samples, duration |-> duration,
                members |-> members]
          ELSE CppInnerLoop(segs, sr, idx + 1,
                            CppInsertAtEnd(samples, seg.samples),
                            RatAdd(duration, seg_duration),
                            Append(members, idx + 1))

\* The outer while of the second pass, as a function: the batches it decodes.
RECURSIVE CppOuterLoop(_, _, _, _)
CppOuterLoop(segs, sr, idx, out) ==
  IF idx >= Len(segs) THEN out
  ELSE LET b == CppInnerLoop(segs, sr, idx, <<>>, Zero, <<>>)
       IN CppOuterLoop(segs, sr, b.seg_idx,
                       Append(out, [samples |-> b.samples,
                                    start_time |-> CppBatchStartSec(segs[idx + 1].start_sample, sr),
                                    duration |-> b.duration,
                                    members |-> b.members]))

\* size_t seg_idx = 0; while (seg_idx < vad_segments.size()) ...
CppBatches(segs, sr) == CppOuterLoop(segs, sr, 0, <<>>)

\* Bug: the batches without text are left out of the table of texts.
CppResult_DropsEmpty(texts, starts, durations, count) ==
  [text |-> CppFullText(texts),
   segments |-> SelectSeq(texts, LAMBDA t : t # <<>>),
   segment_starts |-> starts,
   segment_durations |-> durations,
   num_segments |-> count]

\* The list transcribe_with_vad_ returns.
CppResult(texts, starts, durations, count) ==
  [text |-> CppFullText(texts),
   segments |-> texts,
   segment_starts |-> starts,
   segment_durations |-> durations,
   num_segments |-> count]

\* The outer while is over: build the combined result and return it.
CppBuildResult ==
  /\ pc = "cpp_outer"
  /\ seg_idx >= Len(vad_segments)
  /\ result' = CppResult(batch_texts, batch_start_times, batch_durations, batch_count)
  /\ pc' = "done"
  /\ UNCHANGED <<entry_vars, error, recognized, impl, sample_rate, vad_segments, seg_idx, batch_samples,
                 batch_start_sample, batch_start_time, batch_duration,
                 batch_members, batches, batch_count, batch_texts,
                 batch_start_times, batch_durations, lapply_i, batch_results,
                 num_streams>>

----------------------------------------------------------------------------
(* batch_segments (R) *)

\* Bug: the "batch already has a member" test is dropped.
RBreak_NoFirstRule(samples, duration, seg_duration, max) ==
  RatGT(RatAdd(duration, seg_duration), Rat(max, 1))

\* Bug: ">=" for ">", a candidate that fills the batch exactly is refused.
RBreak_AtLimit(samples, duration, seg_duration, max) ==
  /\ Len(samples) > 0
  /\ RatLE(Rat(max, 1), RatAdd(duration, seg_duration))

\* if (length(batch_samples) > 0 && (batch_duration + seg$duration) > max_duration) break
RBreak(samples, duration, seg_duration, max) ==
  /\ Len(samples) > 0
  /\ RatGT(RatAdd(duration, seg_duration), Rat(max, 1))

\* c(batch_samples, seg$samples)
RConcat(samples, seg_samples) == samples \o seg_samples

\* transcribe_with_vad: vad() found speech, batch_segments is called.
RCallBatchSegments ==
  /\ pc = "r_vad_done"
  /\ Len(segments) # 0
  /\ pc' = "r_enter"
  /\ UNCHANGED <<entry_vars, error, recognized, impl, sample_rate, vad_segments, seg_idx, batch_samples,
                 batch_start_sample, batch_start_time, batch_duration,
                 batch_members, batches, batch_count, batch_texts,
                 batch_start_times, batch_durations, lapply_i, batch_results,
                 result, num_streams>>

\* if (length(segments) == 0) return(list())
RBatchSegmentsEmpty ==
  /\ pc = "r_enter"
  /\ Len(segments) = 0
  /\ batches' = <<>>
  /\ pc' = "done"
  /\ UNCHANGED <<entry_vars, error, recognized, impl, sample_rate, vad_segments, seg_idx, batch_samples,
                 batch_start_sample, batch_start_time, batch_duration,
                 batch_members, batch_count, batch_texts, batch_start_times,
                 batch_durations, lapply_i, batch_results, result, num_streams>>

\* batches <- list(); batch_idx <- 1; seg_idx <- 1
RBatchSegmentsBegin ==
  /\ pc = "r_enter"
  /\ Len(segments) # 0
  /\ batches' = <<>>
  /\ seg_idx' = 1
  /\ pc' = "r_outer"
  /\ UNCHANGED <<entry_vars, error, recognized, impl, sample_rate, vad_segments, batch_samples,
                 batch_start_sample, batch_start_time, batch_duration,
                 batch_members, batch_count, batch_texts, batch_start_times,
                 batch_durations, lapply_i, batch_results, result, num_streams>>

\* while (seg_idx <= length(segments)) { start a new batch
ROpenBatch ==
  /\ pc = "r_outer"
  /\ seg_idx <= Len(segments)
  /\ batch_samples' = <<>>
  /\ batch_start_time' = segments[seg_idx].start_time
  /\ batch_duration' = Zero
  /\ batch_members' = <<>>
  /\ pc' = "r_inner"
  /\ UNCHANGED <<entry_vars, error, recognized, impl, sample_rate, vad_segments, seg_idx, batch_start_sample,
                 batches, batch_count, batch_texts, batch_start_times,
                 batch_durations, lapply_i, batch_results, result, num_streams>>

\* One turn of the inner while that does not break.
RAddSegment ==
  /\ pc = "r_inner"
  /\ seg_idx <= Len(segments)
  /\ LET seg == segments[seg_idx]
     IN /\ ~RBreak(batch_samples, batch_duration, seg.duration, max_arg)
        /\ batch_samples' = RConcat(batch_samples, seg.samples)
        /\ batch_duration' = RatAdd(batch_duration, seg.duration)
        /\ batch_members' = Append(batch_members, seg_idx)
        /\ seg_idx' = seg_idx + 1
  /\ UNCHANGED <<entry_vars, error, recognized, impl, sample_rate, vad_segments, pc, batch_start_sample,
                 batch_start_time, batches, batch_count, batch_texts,
                 batch_start_times, batch_durations, lapply_i, batch_results,
                 result, num_streams>>

\* The inner while ends: batches[[batch_idx]] <- list(samples, start_time, duration)
RCloseBatch ==
  /\ pc = "r_inner"
  /\ \/ seg_idx > Len(segments)
     \/ /\ seg_idx <= Len(segments)
        /\ RBreak(batch_samples, batch_duration, segments[seg_idx].duration, max_arg)
  /\ batches' = Append(batches, [samples |-> batch_samples,
                                 start_time |-> batch_start_time,
                                 duration |-> batch_duration,
                                 members |-> batch_members])
  /\ pc' = "r_outer"
  /\ UNCHANGED <<entry_vars, error, recognized, impl, sample_rate, vad_segments, seg_idx, batch_samples,
                 batch_start_sample, batch_start_time, batch_duration,
                 batch_members, batch_count, batch_texts, batch_start_times,
                 batch_durations, lapply_i, batch_results, result, num_streams>>

\* The outer while is over: batch_segments returns batches.
RBatchSegmentsReturn ==
  /\ pc = "r_outer"
  /\ seg_idx > Len(segments)
  /\ pc' = IF impl = "R" THEN "r_batched" ELSE "done"
  /\ UNCHANGED <<entry_vars, error, recognized, impl, sample_rate, vad_segments, seg_idx, batch_samples,
                 batch_start_sample, batch_start_time, batch_duration,
                 batch_members, batches, batch_count, batch_texts,
                 batch_start_times, batch_durations, lapply_i, batch_results,
                 result, num_streams>>

----------------------------------------------------------------------------
(* OfflineRecognizer$transcribe_with_vad (R) *)

\* Bug: a length-one vector where an empty one is meant, and the count with it.
REmptyResult_OneSegment ==
  [text |-> <<>>,
   segments |-> << <<>> >>,
   segment_starts |-> <<>>,
   segment_durations |-> <<>>,
   num_segments |-> 1]

\* list(text = "", segments = character(0), segment_starts = numeric(0),
\*      segment_durations = numeric(0), num_segments = 0L)
REmptyResult ==
  [text |-> <<>>,
   segments |-> <<>>,
   segment_starts |-> <<>>,
   segment_durations |-> <<>>,
   num_segments |-> 0]

\* if (vad_result$num_segments == 0) return the empty transcription
RNoSpeech ==
  /\ pc = "r_vad_done"
  /\ Len(segments) = 0
  /\ result' = REmptyResult
  /\ pc' = "done"
  /\ UNCHANGED <<entry_vars, error, recognized, impl, sample_rate, vad_segments, seg_idx, batch_samples,
                 batch_start_sample, batch_start_time, batch_duration,
                 batch_members, batches, batch_count, batch_texts,
                 batch_start_times, batch_durations, lapply_i, batch_results,
                 num_streams>>

\* Bug: the two timing fields of the batch are swapped.
RBatchResult_Swapped(text, batch) ==
  [text |-> text, start_time |-> batch.duration, duration |-> batch.start_time]

\* list(text = transcription$text, start_time = batch$start_time, duration = batch$duration)
RBatchResult(text, batch) ==
  [text |-> text, start_time |-> batch.start_time, duration |-> batch.duration]

\* lapply turn i: transcribe_samples_ decodes batch i on a fresh stream.
RTranscribeBatch ==
  /\ pc = "r_batched"
  /\ lapply_i <= Len(batches)
  /\ LET batch == batches[lapply_i]
     IN /\ Len(batch.samples) # 0
        /\ \E text \in RecognizerTexts :
             /\ batch_results' = Append(batch_results, RBatchResult(text, batch))
             /\ recognized' = Append(recognized, Recognition(batch.samples, text))
  /\ num_streams' = num_streams + 1
  /\ lapply_i' = lapply_i + 1
  /\ UNCHANGED <<entry_vars, error, impl, sample_rate, vad_segments, pc, seg_idx, batch_samples,
                 batch_start_sample, batch_start_time, batch_duration,
                 batch_members, batches, batch_count, batch_texts,
                 batch_start_times, batch_durations, result>>

\* lapply turn i: transcribe_samples_ stops with "Empty audio samples"; the
\* error leaves transcribe_with_vad.
RTranscribeEmpty ==
  /\ pc = "r_batched"
  /\ lapply_i <= Len(batches)
  /\ Len(batches[lapply_i].samples) = 0
  /\ recognized' = Append(recognized, FailedRecognition(batches[lapply_i].samples))
  /\ error' = "Empty audio samples"
  /\ pc' = "error"
  /\ UNCHANGED <<entry_vars, impl, sample_rate, vad_segments, seg_idx, batch_samples,
                 batch_start_sample, batch_start_time, batch_duration,
                 batch_members, batches, batch_count, batch_texts,
                 batch_start_times, batch_durations, lapply_i, batch_results,
                 result, num_streams>>

\* Bug: the error of one batch is caught, the batch gets an empty text and
\* lapply goes on with the next batch.
RTranscribeNoStream_Skipped ==
  /\ pc = "r_batched"
  /\ lapply_i <= Len(batches)
  /\ Len(batches[lapply_i].samples) # 0
  /\ recognized' = Append(recognized, FailedRecognition(batches[lapply_i].samples))
  /\ batch_results' = Append(batch_results, RBatchResult(<<>>, batches[lapply_i]))
  /\ lapply_i' = lapply_i + 1
  /\ UNCHANGED <<entry_vars, error, impl, sample_rate, vad_segments, pc, seg_idx,
                 batch_samples, batch_start_sample, batch_start_time,
                 batch_duration, batch_members, batches, batch_count,
                 batch_texts, batch_start_times, batch_durations, result,
                 num_streams>>

\* lapply turn i: the engine returns no stream and transcribe_samples_ stops
\* with "Failed to create offline stream".
RTranscribeNoStream ==
  /\ pc = "r_batched"
  /\ lapply_i <= Len(batches)
  /\ Len(batches[lapply_i].samples) # 0
  /\ recognized' = Append(recognized, FailedRecognition(batches[lapply_i].samples))
  /\ error' = "Failed to create offline stream"
  /\ pc' = "error"
  /\ UNCHANGED <<entry_vars, impl, sample_rate, vad_segments, seg_idx, batch_samples,
                 batch_start_sample, batch_start_time, batch_duration,
                 batch_members, batches, batch_count, batch_texts,
                 batch_start_times, batch_durations, lapply_i, batch_results,
                 result, num_streams>>

\* The result list of transcribe_with_vad, from batch_results.
RResult(results) ==
  LET segment_texts == [k \in 1..Len(results) |-> results[k].text]
      segment_starts == [k \in 1..Len(results) |-> results[k].start_time]
      segment_durations == [k \in 1..Len(results) |-> results[k].duration]
  IN [text |-> RFullText(segment_texts),
      segments |-> segment_texts,
      segment_starts |-> segment_starts,
      segment_durations |-> segment_durations,
      num_segments |-> Len(results)]

\* lapply is over: combine the results and return.
RCombine ==
  /\ pc = "r_batched"
  /\ lapply_i > Len(batches)
  /\ result' = RResult(batch_results)
  /\ pc' = "done"
  /\ UNCHANGED <<entry_vars, error, recognized, impl, sample_rate, vad_segments, seg_idx, batch_samples,
                 batch_start_sample, batch_start_time, batch_duration,
                 batch_members, batches, batch_count, batch_texts,
                 batch_start_times, batch_durations, lapply_i, batch_results,
                 num_streams>>

----------------------------------------------------------------------------
(* Specifications *)

Next ==
  \/ CppOpenBatch
  \/ CppAddSegment
  \/ CppTranscribeBatch
  \/ CppBuildResult
  \/ RCallBatchSegments
  \/ RBatchSegmentsEmpty
  \/ RBatchSegmentsBegin
  \/ ROpenBatch
  \/ RAddSegment
  \/ RCloseBatch
  \/ RBatchSegmentsReturn
  \/ RNoSpeech
  \/ RTranscribeBatch
  \/ RTranscribeEmpty
  \/ RTranscribeNoStream
  \/ RCombine

Spec == Init /\ [][Next]_vars

\* The two batchers alone, on the same segment lists: the batching loop of
\* transcribe_with_vad_ with its decoding, and batch_segments called directly.
InitBatchers ==
  /\ Init
  /\ impl \in {"cpp", "batch_segments"}

NextBatchers ==
  \/ CppOpenBatch
  \/ CppAddSegment
  \/ CppTranscribeBatch
  \/ CppBuildResult
  \/ RBatchSegmentsEmpty
  \/ RBatchSegmentsBegin
  \/ ROpenBatch
  \/ RAddSegment
  \/ RCloseBatch
  \/ RBatchSegmentsReturn

SpecBatchers == InitBatchers /\ [][NextBatchers]_vars

\* The transcript assembler alone: every batch has been recognised, with any
\* texts up to MaxTextLen; n segments of 15 s, back to back at 1 Hz, make a
\* batch each.
InitAssemble ==
  /\ impl \in {"cpp", "R"}
  /\ sample_rate = 1
  /\ \E texts \in SeqsUpTo(Texts, MaxTexts) :
       LET n == Len(texts)
           segs == MkSegments([k \in 1..n |-> 15], 0)
           bs == [k \in 1..n |->
                    [samples |-> segs[k].samples,
                     start_time |-> Rat(segs[k].start_sample, 1),
                     duration |-> Rat(15, 1),
                     members |-> <<k>>]]
       IN /\ impl = "R" => n >= 1
          /\ vad_segments = segs
          /\ batches = bs
          /\ num_streams = n
          /\ batch_samples = IF n = 0 THEN <<>> ELSE segs[n].samples
          /\ batch_duration = IF n = 0 THEN Zero ELSE Rat(15, 1)
          /\ batch_members = IF n = 0 THEN <<>> ELSE <<n>>
          /\ IF impl = "cpp"
               THEN /\ pc = "cpp_outer"
                    /\ seg_idx = n
                    /\ batch_start_sample = IF n = 0 THEN 0 ELSE segs[n].start_sample
                    /\ batch_start_time = Zero
                    /\ batch_count = n
                    /\ batch_texts = texts
                    /\ batch_start_times = [k \in 1..n |-> bs[k].start_time]
                    /\ batch_durations = [k \in 1..n |-> bs[k].duration]
                    /\ lapply_i = 1
                    /\ batch_results = <<>>
               ELSE /\ pc = "r_batched"
                    /\ seg_idx = n + 1
                    /\ batch_start_sample = 0
                    /\ batch_start_time = bs[n].start_time
                    /\ batch_count = 0
                    /\ batch_texts = <<>>
                    /\ batch_start_times = <<>>
                    /\ batch_durations = <<>>
                    /\ lapply_i = n + 1
                    /\ batch_results = [k \in 1..n |-> RBatchResult(texts[k], bs[k])]
          /\ recognized = [k \in 1..n |-> Recognition(bs[k].samples, texts[k])]
  /\ result = NoResult
  /\ InitEntry

NextAssemble ==
  \/ CppBuildResult
  \/ RCombine

SpecAssemble == InitAssemble /\ [][NextAssemble]_vars

----------------------------------------------------------------------------
(* Vocabulary of the properties *)

\* Segments the cursor has passed.
Consumed == IF impl = "cpp" THEN seg_idx ELSE seg_idx - 1

\* A batch is open (the inner loop runs).
Filling == pc \in {"cpp_inner", "r_inner"}

\* The batching loop has ended.
BatchingDone ==
  \/ pc \in {"r_batched", "done", "error"}
  \/ pc = "cpp_outer" /\ seg_idx >= Len(vad_segments)

\* The maximum batch duration, in seconds.
Maximum == Rat(MAX_BATCH_DURATION, 1)

\* Start time and duration of segment k, in seconds, from the detector's report.
SegStart(k) == Rat(vad_segments[k].start_sample, sample_rate)
SegDuration(k) == Rat(vad_segments[k].num_samples, sample_rate)

\* The emitted batches, then the open batch if there is one.
OpenBatch ==
  [samples |-> batch_samples,
   start_time |-> IF impl = "cpp" THEN Rat(batch_start_sample, sample_rate)
                                   ELSE batch_start_time,
   duration |-> batch_duration,
   members |-> batch_members]

AllBatches == IF Filling THEN Append(batches, OpenBatch) ELSE batches

MembersOf(bs) == Flatten([k \in 1..Len(bs) |-> bs[k].members])

PayloadsOf(members) == Flatten([k \in 1..Len(members) |-> vad_segments[members[k]].samples])

SampleCountOf(members) == SumSeq([k \in 1..Len(members) |-> vad_segments[members[k]].num_samples])

AllPositive == \A k \in 1..Len(vad_segments) : vad_segments[k].num_samples > 0

\* The segment lengths, in samples, and whether the segments are back to back.
SegLens == [k \in 1..Len(vad_segments) |-> vad_segments[k].num_samples]
BackToBack == vad_segments = MkSegments(SegLens, 0)

----------------------------------------------------------------------------
(* C1: every batch emitted (stored in the batch list, handed to the        *)
(* recognizer) holds at least one member segment.                          *)
C1_NonEmptyBatch ==
  \A k \in 1..Len(batches) : Len(batches[k].members) >= 1

\* Two batches were emitted, the first one opened on a segment longer than
\* the maximum.
C1_Witness ==
  /\ Len(batches) >= 2
  /\ RatGT(SegDuration(1), Maximum)
  /\ batches[1].members = <<1>>

(* C2: the members of the batches, in batch order then member order, are   *)
(* exactly the segments consumed so far, each once and in order (all of    *)
(* them once batching has ended), and every batch's sample buffer is the   *)
(* concatenation of its members' payloads.                                 *)
C2_OrderPreserved ==
  /\ MembersOf(AllBatches) = [k \in 1..Consumed |-> k]
  /\ BatchingDone => Consumed = Len(vad_segments)
  /\ \A k \in 1..Len(AllBatches) :
       AllBatches[k].samples = PayloadsOf(AllBatches[k].members)

\* Batching ended with three segments in two batches, one of them holding two.
C2_Witness ==
  /\ BatchingDone
  /\ Len(vad_segments) = 3
  /\ Len(batches) = 2
  /\ AllPositive
  /\ Len(batches[2].members) = 2

\* Segments still in front of the cursor, and a measure of the steps left.
Remaining == Len(vad_segments) - Consumed

Measure ==
  CASE pc \in {"done", "error"} -> 0
    [] pc = "r_batched" -> 2 + Len(batches) - lapply_i
    [] pc \in {"cpp_outer", "r_outer"} -> 4 * Remaining + 2 + Len(vad_segments) + 2
    [] Filling /\ batch_members = <<>> -> 4 * Remaining + 1 + Len(vad_segments) + 2
    [] Filling /\ batch_members # <<>> -> 4 * Remaining + 4 + Len(vad_segments) + 2
    [] pc = "r_enter" -> 5 * Len(vad_segments) + 8
    [] pc = "r_vad_done" -> 5 * Len(vad_segments) + 9

OneOversized ==
  /\ Len(vad_segments) = 1
  /\ SegDuration(1) = Rat(40, 1)

C3_Progress ==
  /\ Measure >= 0
  /\ Len(AllBatches) <= Consumed + (IF Filling /\ batch_members = <<>> THEN 1 ELSE 0)
  /\ Len(batches) <= Len(vad_segments)
  /\ (OneOversized /\ BatchingDone) =>
        /\ Len(batches) = 1
        /\ batches[1].members = <<1>>
        /\ batches[1].start_time = SegStart(1)
        /\ batches[1].duration = Rat(40, 1)

(* C3: every outer iteration consumes a segment (iterations started never  *)
(* exceed segments consumed, but for the iteration that has just opened    *)
(* its batch), every step decreases a natural-number measure, so the       *)
(* loop ends; a lone 40 s segment yields exactly one batch holding it.     *)
C3_ForwardProgress == [](C3_Progress) /\ [][Measure' < Measure]_vars

\* batch_segments returned for a lone 40 s segment.
C3_Witness ==
  /\ OneOversized
  /\ impl = "batch_segments"
  /\ pc = "done"
  /\ Len(batches) = 1

\* The two halves of C4: the state part and the step part.
C4_Bounded ==
  AllPositive =>
    \A k \in 1..Len(AllBatches) :
      LET b == AllBatches[k]
      IN /\ RatGT(b.duration, Maximum) =>
              /\ Len(b.members) = 1
              /\ RatGT(SegDuration(b.members[1]), Maximum)
         /\ Len(b.members) >= 2 => RatLE(b.duration, Maximum)

C4_NoLateAccept ==
  (/\ AllPositive
   /\ batch_members # <<>>
   /\ RatLE(Maximum, batch_duration)) => batch_members' = batch_members \/ batch_members' = <<>>

(* C4: when every segment has at least one sample, a batch is longer than  *)
(* the maximum only if it has one member and that member alone is longer   *)
(* than the maximum; a batch of two or more members is no longer than the  *)
(* maximum; and a batch that has a member and has reached the maximum      *)
(* takes no further member.                                                *)
C4_MaxDuration == [](C4_Bounded) /\ [][C4_NoLateAccept]_vars

\* A batch of two members exactly at the maximum was closed, in front of
\* another positive segment.
C4_Witness ==
  /\ AllPositive
  /\ Len(batches) >= 1
  /\ Len(batches[1].members) = 2
  /\ batches[1].duration = Maximum
  /\ Len(vad_segments) = 3

(* C5: a batch's start time is the start time of its first member; it is   *)
(* set when the batch is opened, from the segment at the cursor, and not   *)
(* changed while members are appended.                                     *)
C5_StartOfFirst ==
  /\ \A k \in 1..Len(AllBatches) :
       LET b == AllBatches[k]
       IN b.members # <<>> => b.start_time = SegStart(b.members[1])
  /\ (Filling /\ Consumed < Len(vad_segments) /\ batch_members = <<>>) =>
        OpenBatch.start_time = SegStart(Consumed + 1)

\* A second batch of two members, starting after silence, at 2 Hz.
C5_Witness ==
  /\ Len(batches) = 2
  /\ Len(batches[2].members) = 2
  /\ sample_rate = 2
  /\ batches[2].start_time # batches[1].duration
  /\ batches[2].start_time # Zero

(* C6: a batch's duration is the sum of its members' durations, and its    *)
(* sample buffer is as long as its members' sample counts together.        *)
C6_DurationAccounting ==
  \A k \in 1..Len(AllBatches) :
    LET b == AllBatches[k]
    IN /\ b.duration = Rat(SampleCountOf(b.members), sample_rate)
       /\ Len(b.samples) = SampleCountOf(b.members)

\* A batch of three members, one of them a single sample, at 2 Hz.
C6_Witness ==
  /\ Len(batches) >= 1
  /\ Len(batches[1].members) = 3
  /\ sample_rate = 2
  /\ batches[1].duration.den = 2

(* C7: batch_segments on an empty list returns an empty list; with no      *)
(* speech detected the pipeline ends normally with text "", empty          *)
(* segments, segment_starts and segment_durations, num_segments = 0, and   *)
(* no recognizer stream created.                                           *)
C7_EmptyInput ==
  Len(vad_segments) = 0 =>
    /\ pc # "error"
    /\ batches = <<>>
    /\ num_streams = 0
    /\ (pc = "done" /\ impl # "batch_segments") =>
          /\ result # NoResult
          /\ result.text = <<>>
          /\ result.segments = <<>>
          /\ result.segment_starts = <<>>
          /\ result.segment_durations = <<>>
          /\ result.num_segments = 0

\* The R pipeline returned for a waveform without speech.
C7_Witness ==
  /\ Len(vad_segments) = 0
  /\ impl = "R"
  /\ pc = "done"
  /\ result # NoResult

\* The three segments of the scenario, at either sample rate.
Scenario8 ==
  /\ BackToBack
  /\ SegLens = <<10 * sample_rate, 10 * sample_rate, 15 * sample_rate>>

(* C8: segments (0.0, 10.0), (10.0, 10.0), (20.0, 15.0) with maximum 29.0  *)
(* give two batches: {start 0.0, duration 20.0, members seg0, seg1} and    *)
(* {start 20.0, duration 15.0, members seg2}.                              *)
C8_Scenario ==
  (Scenario8 /\ BatchingDone) =>
    /\ Len(batches) = 2
    /\ batches[1].start_time = Zero
    /\ batches[1].duration = Rat(20, 1)
    /\ batches[1].members = <<1, 2>>
    /\ batches[2].start_time = Rat(20, 1)
    /\ batches[2].duration = Rat(15, 1)
    /\ batches[2].members = <<3>>

\* transcribe_with_vad_ returned on the scenario.
C8_Witness ==
  /\ Scenario8
  /\ impl = "cpp"
  /\ pc = "done"
  /\ Len(batches) = 2

\* The assembly as the specification words it.
IsBlank(t) == \A k \in 1..Len(t) : t[k] \in Whitespace

RECURSIVE JoinFrom(_, _)
JoinFrom(kept, k) ==
  IF k > Len(kept) THEN <<>>
  ELSE IF k = Len(kept) THEN kept[k]
  ELSE kept[k] \o <<" ">> \o JoinFrom(kept, k + 1)

Strip(x) ==
  LET inked == {k \in 1..Len(x) : x[k] \notin Whitespace}
  IN IF inked = {} THEN <<>>
     ELSE SubSeq(x, CHOOSE k \in inked : \A j \in inked : k <= j,
                    CHOOSE k \in inked : \A j \in inked : k >= j)

Assembled(texts) == Strip(JoinFrom(SelectSeq(texts, LAMBDA t : ~IsBlank(t)), 1))

(* C9: the full text is the batch texts in order, those that are empty or  *)
(* all whitespace left out, joined by one space, without leading or        *)
(* trailing whitespace.                                                    *)
C9_FullText ==
  (pc = "done" /\ result # NoResult) => result.text = Assembled(result.segments)

\* The statement of C9 for the R pipeline alone.
C9_FullTextInR ==
  (impl = "R" /\ pc = "done" /\ result # NoResult) =>
     result.text = Assembled(result.segments)

(* C10: the result's table has one entry per batch recognised, whatever    *)
(* the batch's text: segments, segment_starts and segment_durations are    *)
(* as long as num_segments, which is the number of batches.                *)
C10_TableLengths ==
  (pc = "done" /\ result # NoResult) =>
    /\ Len(result.segments) = result.num_segments
    /\ Len(result.segment_starts) = result.num_segments
    /\ Len(result.segment_durations) = result.num_segments
    /\ result.num_segments = Len(batches)
    /\ result.num_segments = num_streams

\* Three segments were recognised as two batches, one of them without text.
C10_Witness ==
  /\ pc = "done"
  /\ result # NoResult
  /\ Len(vad_segments) = 3
  /\ result.num_segments = 2
  /\ result.segments[1] = <<>>
  /\ result.segments[2] # <<>>

----------------------------------------------------------------------------
(* vad() (R) *)

\* threshold, min_silence, min_speech and max_speech are held in hundredths,
\* so that 0.5 is 50 and 29.0 is 2900.
Hundredths(whole, cents) == 100 * whole + cents

\* The defaults of vad() and the vad_config of transcribe.
VadDefaults(file_exists, max_speech) ==
  [file_exists |-> file_exists,
   threshold |-> Hundredths(0, 50),
   min_silence |-> Hundredths(0, 50),
   min_speech |-> Hundredths(0, 25),
   max_speech |-> max_speech]

\* The values the parameters of a call of vad() are drawn from: below, on
\* and above each limit.
Thresholds == {-1, 0, Hundredths(0, 50), Hundredths(1, 0), Hundredths(1, 1)}
MinSilences == {-1, 0, Hundredths(0, 50)}
MinSpeeches == {-1, 0, Hundredths(0, 25)}
MaxSpeeches == {-1, 0, Hundredths(30, 0)}

\* Bug: the limits themselves are refused.
ThresholdOutOfRange_Strict(threshold) == threshold <= 0 \/ threshold >= Hundredths(1, 0)

\* threshold < 0 || threshold > 1
ThresholdOutOfRange(threshold) == threshold < 0 \/ threshold > Hundredths(1, 0)

\* The segment lists a detector can report for a waveform of n samples: the
\* segments lie inside the waveform.
SegmentsWithin(n, sr) ==
  {segs \in {MkSegments(lens, gap) :
               lens \in SeqsUpTo(NumSamplesChoices(sr), MaxSegs), gap \in Gaps} :
     segs = <<>> \/ segs[Len(segs)].start_sample + segs[Len(segs)].num_samples <= n}

\* new_sherpa_vad_result(segments, num_segments, sample_rate, source_file)
VadResult(segs, sr) ==
  [segments |-> [k \in 1..Len(segs) |-> RSegment(segs[k], sr)],
   num_segments |-> Len(segs),
   sample_rate |-> sr]

\* What vad() leaves alone.
vad_unchanged ==
  <<impl, sample_rate, seg_idx, batch_samples, batch_start_sample,
    batch_start_time, batch_duration, batch_members, batches, batch_count,
    batch_texts, batch_start_times, batch_durations, lapply_i, batch_results,
    num_streams, recognized, max_arg, request, vad_args, samples_size,
    vad_window_size, i, is_eof, vad, vad_queue, vad_log, handle>>

\* vad() stops with message.
VadStop(message) ==
  /\ error' = message
  /\ pc' = "error"
  /\ UNCHANGED <<vad_unchanged, vad_segments, result, calls>>

\* if (!file.exists(wav_path)) stop("WAV file not found: ", wav_path)
VadFileMissing ==
  /\ pc = "vad_enter"
  /\ ~vad_args.file_exists
  /\ VadStop("WAV file not found")

\* The parameter checks are made in this order.
ThresholdChecked == vad_args.file_exists /\ ~ThresholdOutOfRange(vad_args.threshold)
MinSilenceChecked == ThresholdChecked /\ ~(vad_args.min_silence < 0)
MinSpeechChecked == MinSilenceChecked /\ ~(vad_args.min_speech < 0)
MaxSpeechChecked == MinSpeechChecked /\ ~(vad_args.max_speech <= 0)

VadBadThreshold ==
  /\ pc = "vad_enter"
  /\ vad_args.file_exists
  /\ ThresholdOutOfRange(vad_args.threshold)
  /\ VadStop("threshold must be between 0 and 1")

VadBadMinSilence ==
  /\ pc = "vad_enter"
  /\ ThresholdChecked
  /\ vad_args.min_silence < 0
  /\ VadStop("min_silence must be non-negative")

VadBadMinSpeech ==
  /\ pc = "vad_enter"
  /\ MinSilenceChecked
  /\ vad_args.min_speech < 0
  /\ VadStop("min_speech must be non-negative")

VadBadMaxSpeech ==
  /\ pc = "vad_enter"
  /\ MinSpeechChecked
  /\ vad_args.max_speech <= 0
  /\ VadStop("max_speech must be positive")

\* wav_data <- read_wav_(wav_path)
VadReadWav ==
  /\ pc = "vad_enter"
  /\ MaxSpeechChecked
  /\ calls' = [calls EXCEPT !.read_wav = @ + 1]
  /\ pc' = "vad_loaded"
  /\ UNCHANGED <<vad_unchanged, vad_segments, result, error>>

\* vad_model_path <- download_vad_model(model, verbose = verbose)
VadDownloadModel ==
  /\ pc = "vad_loaded"
  /\ calls' = [calls EXCEPT !.download_vad_model = @ + 1]
  /\ pc' = "vad_model"
  /\ UNCHANGED <<vad_unchanged, vad_segments, result, error>>

\* vad_result <- extract_vad_segments_(...); the result goes to whoever
\* called vad().
VadExtractSegments ==
  /\ pc = "vad_model"
  /\ calls' = [calls EXCEPT !.extract_vad_segments = @ + 1]
  /\ \E segs \in SegmentsWithin(samples_size, sample_rate) :
       /\ vad_segments' = segs
       /\ result' = IF impl = "vad" THEN VadResult(segs, sample_rate) ELSE result
  /\ pc' = IF impl = "vad" THEN "done" ELSE "r_vad_done"
  /\ UNCHANGED <<vad_unchanged, error>>

\* The lengths, in seconds, of the waveforms given to vad().
VadAudioSeconds == {0, 15}

\* A call of vad() with any of the parameter values.
InitVad ==
  /\ impl = "vad"
  /\ pc = "vad_enter"
  /\ sample_rate \in SampleRates
  /\ vad_segments = <<>>
  /\ seg_idx = 1
  /\ InitLocals
  /\ error = NoError
  /\ max_arg = max_duration
  /\ request = [none |-> TRUE]
  /\ \E file_exists \in BOOLEAN, threshold \in Thresholds,
        min_silence \in MinSilences, min_speech \in MinSpeeches,
        max_speech \in MaxSpeeches :
       vad_args = [file_exists |-> file_exists,
                   threshold |-> threshold,
                   min_silence |-> min_silence,
                   min_speech |-> min_speech,
                   max_speech |-> max_speech]
  /\ calls = NoCalls
  /\ \E seconds \in VadAudioSeconds : samples_size = seconds * sample_rate
  /\ vad_window_size = 0
  /\ i = 0
  /\ is_eof = FALSE
  /\ vad = "none"
  /\ vad_queue = <<>>
  /\ vad_log = <<>>
  /\ handle = NoHandle

NextVad ==
  \/ VadFileMissing
  \/ VadBadThreshold
  \/ VadBadMinSilence
  \/ VadBadMinSpeech
  \/ VadBadMaxSpeech
  \/ VadReadWav
  \/ VadDownloadModel
  \/ VadExtractSegments

SpecVad == InitVad /\ [][NextVad]_vars

----------------------------------------------------------------------------
(* OfflineRecognizer$transcribe (R) *)

\* transcribe = function(wav_path, verbose = TRUE)
TranscribeFormals == {"wav_path", "verbose"}

\* The length a Whisper model takes at once, in seconds, and the length
\* above which transcribe segments the audio.
WHISPER_CONTEXT_SECONDS == 30
VAD_ABOVE_SECONDS == 29

\* Bug: the model type is not looked at.
UseVad_AnyModel(model_type, num_samples, sr) ==
  RatGT(Rat(num_samples, sr), Rat(VAD_ABOVE_SECONDS, 1))

\* Bug: the comparison includes the limit.
UseVad_FromLimit(model_type, num_samples, sr) ==
  /\ model_type = "whisper"
  /\ RatLE(Rat(VAD_ABOVE_SECONDS, 1), Rat(num_samples, sr))

\* use_vad: model_type == "whisper" and num_samples / sample_rate > 29.0
UseVad(model_type, num_samples, sr) ==
  /\ model_type = "whisper"
  /\ RatGT(Rat(num_samples, sr), Rat(VAD_ABOVE_SECONDS, 1))

\* The list transcribe_wav_ returns (convert_result_to_list).
DirectResult(text) ==
  [text |-> text, tokens |-> <<>>, timestamps |-> <<>>, durations |-> <<>>,
   language |-> <<>>, emotion |-> <<>>, event |-> <<>>, json |-> <<>>]

\* What transcribe itself leaves alone.
transcribe_unchanged ==
  <<impl, sample_rate, vad_segments, seg_idx, batch_samples,
    batch_start_sample, batch_start_time, batch_duration, batch_members,
    batches, batch_count, batch_texts, batch_start_times, batch_durations,
    lapply_i, batch_results, num_streams, recognized, max_arg, request,
    samples_size, vad_window_size, i, is_eof, vad, vad_queue, vad_log, handle>>

\* transcribe stops with message.
TranscribeStop(message) ==
  /\ error' = message
  /\ pc' = "error"
  /\ UNCHANGED <<transcribe_unchanged, vad_args, result, calls>>

\* The call names an argument that transcribe does not have: R stops while
\* it matches the arguments, before the body runs.
TranscribeUnusedArgument ==
  /\ pc = "transcribe"
  /\ ~(request.named_args \subseteq TranscribeFormals)
  /\ TranscribeStop("unused argument")

\* if (!file.exists(wav_path)) stop("WAV file not found: ", wav_path)
TranscribeFileMissing ==
  /\ pc = "transcribe"
  /\ request.named_args \subseteq TranscribeFormals
  /\ ~request.file_exists
  /\ TranscribeStop("WAV file not found")

\* if (is.null(private$recognizer_ptr)) stop("Recognizer not initialized")
TranscribeNotInitialized ==
  /\ pc = "transcribe"
  /\ request.named_args \subseteq TranscribeFormals
  /\ request.file_exists
  /\ request.recognizer_ptr = "null"
  /\ TranscribeStop("Recognizer not initialized")

\* The checks at the head of transcribe have passed.
TranscribeChecked ==
  /\ pc = "transcribe"
  /\ request.named_args \subseteq TranscribeFormals
  /\ request.file_exists
  /\ request.recognizer_ptr # "null"

\* read_wav_ is called for a Whisper model only.
ReadForDuration(model_type) == IF model_type = "whisper" THEN 1 ELSE 0

\* if (!use_vad): transcribe_wav_ recognises the whole file and its list is
\* returned.
TranscribeDirect ==
  /\ TranscribeChecked
  /\ ~UseVad(request.model_type, samples_size, sample_rate)
  /\ calls' = [calls EXCEPT !.read_wav = @ + ReadForDuration(request.model_type),
                            !.transcribe_wav = @ + 1]
  /\ \E text \in RecognizerTexts : result' = DirectResult(text)
  /\ pc' = "done"
  /\ UNCHANGED <<transcribe_unchanged, vad_args, error>>

\* if (!use_vad): transcribe_wav_ stops (no valid WAV, or no stream).
TranscribeDirectStop ==
  /\ TranscribeChecked
  /\ ~UseVad(request.model_type, samples_size, sample_rate)
  /\ calls' = [calls EXCEPT !.read_wav = @ + ReadForDuration(request.model_type),
                            !.transcribe_wav = @ + 1]
  /\ error' = "Failed to create offline stream"
  /\ pc' = "error"
  /\ UNCHANGED <<transcribe_unchanged, vad_args, result>>

\* use_vad: private$transcribe_with_vad(wav_path, vad_config), which calls
\* vad() with the vad_config.
TranscribeWithVad ==
  /\ TranscribeChecked
  /\ UseVad(request.model_type, samples_size, sample_rate)
  /\ calls' = [calls EXCEPT !.read_wav = @ + ReadForDuration(request.model_type),
                            !.transcribe_with_vad = @ + 1]
  /\ vad_args' = VadDefaults(request.file_exists, Hundredths(29, 0))
  /\ pc' = "vad_enter"
  /\ UNCHANGED <<transcribe_unchanged, result, error>>

\* The kinds of model, the named arguments of a call and the lengths, in
\* samples, of the audio.
ModelTypes == {"whisper", "paraformer"}
NamedArgs == {{}, {"verbose"}, {"use_vad"}}
AudioSamples(sr) ==
  {20 * sr, VAD_ABOVE_SECONDS * sr, VAD_ABOVE_SECONDS * sr + 1,
   WHISPER_CONTEXT_SECONDS * sr, 45 * sr}

\* A call of transcribe on a recognizer.
InitTranscribe ==
  /\ impl = "R"
  /\ pc = "transcribe"
  /\ sample_rate \in SampleRates
  /\ vad_segments = <<>>
  /\ seg_idx = 1
  /\ InitLocals
  /\ error = NoError
  /\ max_arg = max_duration
  /\ \E model_type \in ModelTypes, named_args \in NamedArgs,
        file_exists \in BOOLEAN, recognizer_ptr \in {"null", "recognizer"} :
       request = [model_type |-> model_type,
                  named_args |-> named_args,
                  file_exists |-> file_exists,
                  recognizer_ptr |-> recognizer_ptr]
  /\ vad_args = [none |-> TRUE]
  /\ calls = NoCalls
  /\ samples_size \in AudioSamples(sample_rate)
  /\ vad_window_size = 0
  /\ i = 0
  /\ is_eof = FALSE
  /\ vad = "none"
  /\ vad_queue = <<>>
  /\ vad_log = <<>>
  /\ handle = NoHandle

\* transcribe, then vad() with the vad_config (whose checks all pass), then
\* the rest of transcribe_with_vad.
NextTranscribe ==
  \/ TranscribeUnusedArgument
  \/ TranscribeFileMissing
  \/ TranscribeNotInitialized
  \/ TranscribeDirect
  \/ TranscribeDirectStop
  \/ TranscribeWithVad
  \/ VadReadWav
  \/ VadDownloadModel
  \/ VadExtractSegments
  \/ RNoSpeech
  \/ RCallBatchSegments
  \/ RBatchSegmentsBegin
  \/ ROpenBatch
  \/ RAddSegment
  \/ RCloseBatch
  \/ RBatchSegmentsReturn
  \/ RTranscribeBatch
  \/ RTranscribeEmpty
  \/ RTranscribeNoStream
  \/ RCombine

SpecTranscribe == InitTranscribe /\ [][NextTranscribe]_vars

----------------------------------------------------------------------------
(* batch_segments (R), called on its own with any max_duration *)

\* The values of the argument max_duration: below zero, zero, the default.
MaxDurations == {-1, 0, max_duration}

InitBatch ==
  /\ impl = "batch_segments"
  /\ pc = "r_enter"
  /\ sample_rate \in SampleRates
  /\ \E gap \in Gaps :
       \E lens \in SeqsUpTo(NumSamplesChoices(sample_rate), MaxSegs) :
         vad_segments = MkSegments(lens, gap)
  /\ seg_idx = 1
  /\ InitLocals
  /\ error = NoError
  /\ max_arg \in MaxDurations
  /\ request = [none |-> TRUE]
  /\ vad_args = [none |-> TRUE]
  /\ calls = NoCalls
  /\ samples_size = 0
  /\ vad_window_size = 0
  /\ i = 0
  /\ is_eof = FALSE
  /\ vad = "none"
  /\ vad_queue = <<>>
  /\ vad_log = <<>>
  /\ handle = NoHandle

NextBatch ==
  \/ RBatchSegmentsEmpty
  \/ RBatchSegmentsBegin
  \/ ROpenBatch
  \/ RAddSegment
  \/ RCloseBatch
  \/ RBatchSegmentsReturn

SpecBatch == InitBatch /\ [][NextBatch]_vars

----------------------------------------------------------------------------
(* transcribe_with_vad_ (C++): argument checks and first pass *)

\* The longest waveform, in samples, the window sizes, and the number of
\* AcceptWaveform calls after which a run is no longer followed.
MaxSamples == 6
WindowSizes == {-1, 0, 1, 2, 3}
MaxAccept == 6

\* i and the sum i + vad_window_size are size_t, modulo 2^64.  They are held
\* as the representative nearest to zero: a negative one stands for a value
\* of 2^64 less its size, which no vector length reaches.
SizeTLess(x, size) == x >= 0 /\ x < size

\* Bug: <= for <, so that a last window that ends with the waveform is fed.
CppFeeds_Inclusive(cursor, window, size) ==
  cursor + window >= 0 /\ cursor + window <= size

\* if (i + vad_window_size < samples_vec.size())
CppFeeds(cursor, window, size) == SizeTLess(cursor + window, size)

\* Bug: the check of samples.size() is missing.
CppArgumentsChecked_NoEmptyCheck ==
  /\ pc = "cpp_enter"
  /\ request.recognizer_ptr # "null"

\* Neither of the two checks at the head of the function stops.
CppArgumentsChecked ==
  /\ pc = "cpp_enter"
  /\ request.recognizer_ptr # "null"
  /\ samples_size # 0

\* What the head and the first pass leave alone.
first_pass_unchanged ==
  <<impl, sample_rate, seg_idx, batch_samples, batch_start_sample,
    batch_start_time, batch_duration, batch_members, batches, batch_count,
    batch_texts, batch_start_times, batch_durations, lapply_i, batch_results,
    result, num_streams, recognized, max_arg, request, vad_args, samples_size,
    vad_window_size, handle>>

\* The calls made on the detector, as vad_log keeps them; a feed or flush
\* call is kept with the segments it made ready.
VadCreate == [call |-> "CreateVoiceActivityDetector"]
VadAccept(from, n, ready) ==
  [call |-> "AcceptWaveform", from |-> from, n |-> n, ready |-> ready]
VadFlush(ready) == [call |-> "Flush", ready |-> ready]
VadPop(segment) == [call |-> "Pop", start_sample |-> segment.start_sample]
VadDestroy == [call |-> "DestroyVoiceActivityDetector"]

\* if (recognizer.get() == nullptr) stop("Invalid recognizer pointer")
CppNullRecognizer ==
  /\ pc = "cpp_enter"
  /\ request.recognizer_ptr = "null"
  /\ error' = "Invalid recognizer pointer"
  /\ pc' = "error"
  /\ UNCHANGED <<first_pass_unchanged, vad_segments, calls, i, is_eof, vad,
                 vad_queue, vad_log>>

\* if (samples.size() == 0) stop("Empty audio samples")
CppEmptySamples ==
  /\ pc = "cpp_enter"
  /\ request.recognizer_ptr # "null"
  /\ samples_size = 0
  /\ error' = "Empty audio samples"
  /\ pc' = "error"
  /\ UNCHANGED <<first_pass_unchanged, vad_segments, calls, i, is_eof, vad,
                 vad_queue, vad_log>>

\* SherpaOnnxCreateVoiceActivityDetector returns a detector; i = 0, is_eof = 0.
CppCreateVad ==
  /\ CppArgumentsChecked
  /\ calls' = [calls EXCEPT !.CreateVoiceActivityDetector = @ + 1]
  /\ vad_log' = Append(vad_log, VadCreate)
  /\ vad' = "live"
  /\ vad_queue' = <<>>
  /\ vad_segments' = <<>>
  /\ i' = 0
  /\ is_eof' = FALSE
  /\ pc' = "cpp_feed"
  /\ UNCHANGED <<first_pass_unchanged, error>>

\* Bug: the returned pointer is not tested, and the first pass goes on
\* with no detector.
CppCreateVadFailed_Unchecked ==
  /\ CppArgumentsChecked
  /\ calls' = [calls EXCEPT !.CreateVoiceActivityDetector = @ + 1]
  /\ vad_log' = Append(vad_log, VadCreate)
  /\ vad' = "null"
  /\ vad_queue' = <<>>
  /\ vad_segments' = <<>>
  /\ i' = 0
  /\ is_eof' = FALSE
  /\ pc' = "cpp_feed"
  /\ UNCHANGED <<first_pass_unchanged, error>>

\* SherpaOnnxCreateVoiceActivityDetector returns nullptr:
\* stop("Failed to create VAD instance. ...")
CppCreateVadFailed ==
  /\ CppArgumentsChecked
  /\ calls' = [calls EXCEPT !.CreateVoiceActivityDetector = @ + 1]
  /\ vad_log' = Append(vad_log, VadCreate)
  /\ vad' = "null"
  /\ error' = "Failed to create VAD instance"
  /\ pc' = "error"
  /\ UNCHANGED <<first_pass_unchanged, vad_segments, i, is_eof, vad_queue>>

\* Where the last segment the detector reported ends.
CollectedEnd ==
  LET reported == vad_segments \o vad_queue
  IN IF reported = <<>> THEN 0
     ELSE reported[Len(reported)].start_sample
            + reported[Len(reported)].num_samples

\* What the detector can have ready after a call: none, one or two segments
\* that follow the ones reported and lie in the fed samples.
ReadySegments(fed) ==
  LET one == {<<VadSegment(s, n)>> :
                s \in CollectedEnd..(fed - 1), n \in 1..MaxSamples}
      two == {<<VadSegment(s, n), VadSegment(t, m)>> :
                s \in CollectedEnd..(fed - 1), n \in 1..MaxSamples,
                t \in CollectedEnd..(fed - 1), m \in 1..MaxSamples}
      fits(new) ==
        /\ Len(vad_segments) + Len(vad_queue) + Len(new) <= MaxSegs
        /\ new[Len(new)].start_sample + new[Len(new)].num_samples <= fed
        /\ Len(new) = 2 => new[1].start_sample + new[1].num_samples <= new[2].start_sample
  IN {<<>>} \cup {new \in one \cup two : fits(new)}

\* A turn of while (!is_eof) that feeds a window:
\* AcceptWaveform(vad, samples_vec.data() + i, vad_window_size)
CppFeedWindow ==
  /\ pc = "cpp_feed"
  /\ ~is_eof
  /\ CppFeeds(i, vad_window_size, samples_size)
  /\ calls.AcceptWaveform < MaxAccept
  /\ calls' = [calls EXCEPT !.AcceptWaveform = @ + 1]
  /\ \E new \in ReadySegments(i + vad_window_size) :
       /\ vad_queue' = vad_queue \o new
       /\ vad_log' = Append(vad_log, VadAccept(i, vad_window_size, new))
  /\ pc' = "cpp_drain"
  /\ UNCHANGED <<first_pass_unchanged, error, vad_segments, i, is_eof, vad>>

\* The last turn: Flush(vad); is_eof = 1
CppFlush ==
  /\ pc = "cpp_feed"
  /\ ~is_eof
  /\ ~CppFeeds(i, vad_window_size, samples_size)
  /\ calls' = [calls EXCEPT !.Flush = @ + 1]
  /\ is_eof' = TRUE
  /\ \E new \in ReadySegments(IF i >= 0 THEN i ELSE 0) :
       /\ vad_queue' = vad_queue \o new
       /\ vad_log' = Append(vad_log, VadFlush(new))
  /\ pc' = "cpp_drain"
  /\ UNCHANGED <<first_pass_unchanged, error, vad_segments, i, vad>>

\* Bug: the turn may end while the detector still has segments ready.
CppAdvance_QueueLeft ==
  /\ pc = "cpp_drain"
  /\ i' = i + vad_window_size
  /\ pc' = "cpp_feed"
  /\ UNCHANGED <<first_pass_unchanged, error, vad_segments, calls, is_eof, vad,
                 vad_queue, vad_log>>

\* while (!Empty(vad)): Front, copy start, n and samples, push_back,
\* DestroySpeechSegment, Pop
CppCollectSegment ==
  /\ pc = "cpp_drain"
  /\ vad_queue # <<>>
  /\ vad_segments' = Append(vad_segments, Head(vad_queue))
  /\ vad_queue' = Tail(vad_queue)
  /\ vad_log' = Append(vad_log, VadPop(Head(vad_queue)))
  /\ UNCHANGED <<first_pass_unchanged, error, pc, calls, i, is_eof, vad>>

\* Empty(vad): the inner while is over; i += vad_window_size
CppAdvance ==
  /\ pc = "cpp_drain"
  /\ vad_queue = <<>>
  /\ i' = i + vad_window_size
  /\ pc' = "cpp_feed"
  /\ UNCHANGED <<first_pass_unchanged, error, vad_segments, calls, is_eof, vad,
                 vad_queue, vad_log>>

\* Bug: the detector is not destroyed.
CppDestroyVad_Missing ==
  /\ pc = "cpp_feed"
  /\ is_eof
  /\ pc' = "cpp_outer"
  /\ UNCHANGED <<first_pass_unchanged, error, vad_segments, calls, i, is_eof,
                 vad, vad_queue, vad_log>>

\* The loop is over: SherpaOnnxDestroyVoiceActivityDetector(vad), and the
\* second pass begins with seg_idx = 0 and batch_count = 0.
CppDestroyVad ==
  /\ pc = "cpp_feed"
  /\ is_eof
  /\ calls' = [calls EXCEPT !.DestroyVoiceActivityDetector = @ + 1]
  /\ vad_log' = Append(vad_log, VadDestroy)
  /\ vad' = "destroyed"
  /\ pc' = "cpp_outer"
  /\ UNCHANGED <<first_pass_unchanged, error, vad_segments, i, is_eof, vad_queue>>

\* A call of transcribe_with_vad_.
InitCpp ==
  /\ impl = "cpp"
  /\ pc = "cpp_enter"
  /\ sample_rate \in SampleRates
  /\ vad_segments = <<>>
  /\ seg_idx = 0
  /\ InitLocals
  /\ error = NoError
  /\ max_arg = max_duration
  /\ \E recognizer_ptr \in {"null", "recognizer"} :
       request = [recognizer_ptr |-> recognizer_ptr]
  /\ vad_args = [none |-> TRUE]
  /\ calls = NoCalls
  /\ samples_size \in 0..MaxSamples
  /\ vad_window_size \in WindowSizes
  /\ i = 0
  /\ is_eof = FALSE
  /\ vad = "none"
  /\ vad_queue = <<>>
  /\ vad_log = <<>>
  /\ handle = NoHandle

NextCpp ==
  \/ CppNullRecognizer
  \/ CppEmptySamples
  \/ CppCreateVad
  \/ CppCreateVadFailed
  \/ CppFeedWindow
  \/ CppFlush
  \/ CppCollectSegment
  \/ CppAdvance
  \/ CppDestroyVad
  \/ CppOpenBatch
  \/ CppAddSegment
  \/ CppTranscribeBatch
  \/ CppBuildResult

SpecCpp == InitCpp /\ [][NextCpp]_vars

\* A call of either entry point: transcribe_with_vad_ or transcribe.
SpecEntry == (InitCpp \/ InitTranscribe) /\ [][NextCpp \/ NextTranscribe]_vars

----------------------------------------------------------------------------
(* The per-batch driver *)

\* The rows of the per-batch table as far as the driver has filled it.
Rows ==
  IF impl = "cpp"
    THEN [k \in 1..Len(batch_texts) |->
            [text |-> batch_texts[k],
             start_time |-> batch_start_times[k],
             duration |-> batch_durations[k]]]
    ELSE batch_results

\* The rows of the table of a returned result.
ResultRows ==
  [k \in 1..Len(result.segments) |->
     [text |-> result.segments[k],
      start_time |-> result.segment_starts[k],
      duration |-> result.segment_durations[k]]]

\* Row k is the recognition of batch k, with the timing of batch k.
RowOfBatch(row, k) ==
  /\ k <= Len(batches)
  /\ k <= Len(recognized)
  /\ recognized[k].ok
  /\ recognized[k].samples = batches[k].samples
  /\ row.text = recognized[k].text
  /\ row.start_time = batches[k].start_time
  /\ row.duration = batches[k].duration

\* A run of one of the two pipelines.
Pipeline == impl \in {"cpp", "R"}

\* A result that a pipeline returned after it recognised its batches.
Returned == Pipeline /\ pc = "done" /\ result # NoResult

(* C11: the driver yields one row per batch, in batch order: row i holds   *)
(* the text recognised from the samples of batch i and the start time and  *)
(* duration of batch i unchanged, while the table is filled and in the     *)
(* result; the batches follow the detector's emission order.               *)
C11_RowPerBatch ==
  Pipeline =>
    /\ \A k \in 1..Len(Rows) : RowOfBatch(Rows[k], k)
    /\ \A k \in 1..(Len(batches) - 1) :
          batches[k].members[Len(batches[k].members)] < batches[k + 1].members[1]
    /\ Returned =>
          /\ Len(ResultRows) = Len(batches)
          /\ \A k \in 1..Len(ResultRows) : RowOfBatch(ResultRows[k], k)

\* The R driver returned two rows that differ in text, start and duration.
C11_Witness ==
  /\ impl = "R"
  /\ Returned
  /\ Len(batches) = 2
  /\ result.segments[1] # result.segments[2]
  /\ result.segment_durations[1] # result.segment_durations[2]
  /\ result.segment_starts[2] # result.segment_durations[2]

\* The detector's report is well formed: no segment starts before the
\* waveform and every segment has samples.
WellFormedSegments ==
  \A k \in 1..Len(vad_segments) :
    /\ vad_segments[k].start_sample >= 0
    /\ vad_segments[k].num_samples > 0

(* C15: when every segment the detector emitted starts at a sample >= 0    *)
(* and has more than zero samples, every start in the result is >= 0 and   *)
(* every duration in the result is > 0.                                    *)
C15_PositiveTiming ==
  (Returned /\ WellFormedSegments) =>
    \A k \in 1..Len(ResultRows) :
      /\ RatLE(Zero, ResultRows[k].start_time)
      /\ RatGT(ResultRows[k].duration, Zero)

\* The C++ pipeline returned a batch that is one sample long at 2 Hz, and
\* the R pipeline one that starts at the first sample.
C15_Witness ==
  /\ Returned
  /\ WellFormedSegments
  /\ sample_rate = 2
  /\ result.num_segments >= 1
  /\ \/ impl = "cpp" /\ result.segment_durations[result.num_segments] = Rat(1, 2)
     \/ impl = "R" /\ result.segment_starts[1] = Zero

\* A recognition of the run ended in an error.
RecognitionFailed == \E k \in 1..Len(recognized) : ~recognized[k].ok

\* The failure is the last thing the run did: the error is raised, nothing
\* is returned, the failed batch was tried once and no batch after it.
FailureIsFatal ==
  RecognitionFailed =>
    /\ pc = "error"
    /\ error # NoError
    /\ result = NoResult
    /\ ~recognized[Len(recognized)].ok
    /\ \A k \in 1..(Len(recognized) - 1) : recognized[k].ok
    /\ Len(recognized) <= Len(batches)
    /\ recognized[Len(recognized)].samples = batches[Len(recognized)].samples

(* C16: a batch whose recognition fails ends the request: the error is     *)
(* raised to the caller, nothing is returned, the batch is not tried       *)
(* again, no later batch is recognised, and no step follows the error.     *)
C16_FatalFailure == [](FailureIsFatal) /\ [][pc # "error"]_vars

\* The second of two batches failed after the first had been recognised
\* with a text.
C16_Witness ==
  /\ pc = "error"
  /\ Len(batches) >= 2
  /\ Len(recognized) = 2
  /\ recognized[1].ok
  /\ recognized[1].text # <<>>
  /\ ~recognized[2].ok

----------------------------------------------------------------------------
(* The branch of transcribe *)

\* The call got past argument matching and the two checks at the head.
Admitted ==
  /\ request.named_args \subseteq TranscribeFormals
  /\ request.file_exists
  /\ request.recognizer_ptr # "null"

\* transcribe has taken its branch, or has stopped.
Branched == pc # "transcribe"

\* The audio is longer than seconds.
LongerThan(seconds) == samples_size > seconds * sample_rate

\* Which path ran: the one call of transcribe_wav_ and nothing of the
\* pipeline, or the one run of transcribe_with_vad.
DirectPath ==
  /\ calls.transcribe_wav = 1
  /\ calls.transcribe_with_vad = 0
  /\ calls.extract_vad_segments = 0
  /\ calls.download_vad_model = 0
  /\ batches = <<>>
  /\ recognized = <<>>
  /\ pc \in {"done", "error"}

SegmentedPath ==
  /\ calls.transcribe_with_vad = 1
  /\ calls.transcribe_wav = 0

\* The fields that only the pipeline's result has.
SegmentFields == {"segments", "segment_starts", "segment_durations", "num_segments"}

(* C12: transcribe runs the VAD pipeline exactly when the model type is    *)
(* whisper and the audio is longer than 29 s; otherwise it makes one call  *)
(* of transcribe_wav_ and the result has no segments or num_segments       *)
(* field; one path runs per admitted call, never both, never twice, and    *)
(* none for a call that is refused.                                        *)
C12_OneShotBranch ==
  /\ calls.transcribe_wav + calls.transcribe_with_vad <= 1
  /\ (Branched /\ ~Admitted) =>
        /\ pc = "error"
        /\ calls = NoCalls
  /\ (Branched /\ Admitted) =>
        /\ SegmentedPath <=> (request.model_type = "whisper" /\ LongerThan(29))
        /\ DirectPath <=> ~(request.model_type = "whisper" /\ LongerThan(29))
        /\ (DirectPath /\ pc = "done") => DOMAIN result \cap SegmentFields = {}

\* Whisper audio of 29.5 s went through the pipeline, and came back with
\* the table of its batches.
C12_Witness ==
  /\ pc = "done"
  /\ request.model_type = "whisper"
  /\ sample_rate = 2
  /\ samples_size = 59
  /\ SegmentedPath
  /\ SegmentFields \subseteq DOMAIN result
  /\ result.num_segments >= 1

(* C13, as stated: Whisper audio no longer than the 30 s context window    *)
(* takes the direct path: one call of the recognizer on the whole file,    *)
(* and no detector, batcher or per-batch driver.                           *)
C13_WithinWindowDirect ==
  (Branched /\ Admitted /\ request.model_type = "whisper"
     /\ ~LongerThan(WHISPER_CONTEXT_SECONDS)) => DirectPath

(* C13, amended: Whisper audio no longer than 29 s takes the direct path:  *)
(* one call of the recognizer on the whole file, and no detector, batcher  *)
(* or per-batch driver.                                                    *)
C13_WithinLimitDirect ==
  (Branched /\ Admitted /\ request.model_type = "whisper"
     /\ ~LongerThan(VAD_ABOVE_SECONDS)) => DirectPath

\* Whisper audio of exactly 29 s was recognised in one call.
C13_Witness ==
  /\ pc = "done"
  /\ Admitted
  /\ request.model_type = "whisper"
  /\ samples_size = VAD_ABOVE_SECONDS * sample_rate
  /\ DirectPath
  /\ "text" \in DOMAIN result

\* The call asks for segmentation by name.
AsksForVad == "use_vad" \in request.named_args

(* C14: a call that asks for segmentation (use_vad = TRUE) on a file that  *)
(* exists, with a recognizer, runs the pipeline even for audio within the  *)
(* context window, and its result has the fields segments,                 *)
(* segment_starts, segment_durations and num_segments.                     *)
C14_ExplicitSegmentation ==
  (Branched /\ AsksForVad /\ request.file_exists
     /\ request.recognizer_ptr # "null"
     /\ ~LongerThan(WHISPER_CONTEXT_SECONDS)) =>
    /\ SegmentedPath
    /\ pc = "done" => SegmentFields \subseteq DOMAIN result

----------------------------------------------------------------------------
(* Validation of the configuration *)

\* The messages of the checks at the head of vad().
VadCheckMessages ==
  {"WAV file not found", "threshold must be between 0 and 1",
   "min_silence must be non-negative", "min_speech must be non-negative",
   "max_speech must be positive"}

\* The call of vad() names a missing file or a parameter out of range.
VadInvalid ==
  \/ ~vad_args.file_exists
  \/ vad_args.threshold < 0
  \/ vad_args.threshold > 100
  \/ vad_args.min_silence < 0
  \/ vad_args.min_speech < 0
  \/ vad_args.max_speech <= 0

(* C17: a call of vad() with a missing file, a threshold outside [0, 1],   *)
(* a negative min_silence or min_speech, or a max_speech <= 0 can only     *)
(* stop with the message of a check, and has then read no audio, resolved  *)
(* no model and run no detector; any other call, the limits 0 and 1 of     *)
(* threshold and 0 of min_silence and min_speech included, is not stopped. *)
C17_VadValidation ==
  /\ VadInvalid =>
        /\ pc \in {"vad_enter", "error"}
        /\ calls = NoCalls
        /\ result = NoResult
        /\ pc = "error" => error \in VadCheckMessages
        /\ pc = "vad_enter" =>
              /\ ENABLED NextVad
              /\ ~ENABLED VadReadWav
  /\ ~VadInvalid => pc # "error"

\* min_silence, min_speech and threshold at their limit passed, and
\* max_speech = 0 stopped the call.
C17_Witness ==
  /\ pc = "error"
  /\ vad_args.file_exists
  /\ vad_args.threshold = 0
  /\ vad_args.min_silence = 0
  /\ vad_args.min_speech = 0
  /\ vad_args.max_speech = 0
  /\ error = "max_speech must be positive"

(* C18: batch_segments called with a max_duration <= 0 stops with an       *)
(* error before it batches anything: it does not get past its entry and    *)
(* produces no batch.                                                      *)
C18_MaxDurationRejected ==
  (impl = "batch_segments" /\ max_arg <= 0) =>
    /\ pc \in {"r_enter", "error"}
    /\ batches = <<>>

(* C19: transcribe_with_vad_ called with a window size <= 0 stops with an *)
(* error before the pipeline starts: the first pass is not entered and     *)
(* the detector gets no AcceptWaveform and no Flush call.                  *)
C19_WindowSizeRejected ==
  (impl = "cpp" /\ vad_window_size <= 0) =>
    /\ pc \in {"cpp_enter", "error"}
    /\ calls.AcceptWaveform = 0
    /\ calls.Flush = 0

(* C20: an empty waveform is refused before the detector or the            *)
(* recognizer is used: transcribe_with_vad_ given no samples stops with no *)
(* detector made, no stream made and nothing returned, and                 *)
(* transcribe_samples_ given no samples stops before it makes a stream.    *)
C20_EmptyRejected ==
  /\ (impl = "cpp" /\ samples_size = 0) =>
        /\ pc \in {"cpp_enter", "error"}
        /\ calls = NoCalls
        /\ vad = "none"
        /\ num_streams = 0
        /\ recognized = <<>>
        /\ result = NoResult
        /\ (pc = "error" /\ request.recognizer_ptr # "null") =>
              error = "Empty audio samples"
  /\ impl = "R" =>
        \A k \in 1..Len(recognized) :
          recognized[k].samples = <<>> =>
            /\ ~recognized[k].ok
            /\ pc = "error"
            /\ error = "Empty audio samples"
            /\ num_streams = k - 1
            /\ result = NoResult

\* transcribe_with_vad_ was given a recognizer and no samples, and stopped.
C20_Witness ==
  /\ impl = "cpp"
  /\ request.recognizer_ptr # "null"
  /\ samples_size = 0
  /\ pc = "error"
  /\ error = "Empty audio samples"
  /\ calls = NoCalls

----------------------------------------------------------------------------
(* The batching rule at its boundary, and the two batchers side by side *)

\* A batch with a member is open and a candidate segment is in front of the
\* cursor.
CandidateConsidered ==
  /\ Filling
  /\ batch_members # <<>>
  /\ Consumed < Len(vad_segments)

\* The total the batch would have with the candidate.
TotalWithCandidate == RatAdd(batch_duration, SegDuration(Consumed + 1))

\* The candidate is left for the next batch: the open batch is emitted as it
\* is and the cursor stays.
CandidateRejected ==
  /\ batches' = Append(batches, OpenBatch)
  /\ Consumed' = Consumed

\* The candidate joins the open batch.
CandidateAccepted ==
  /\ batches' = batches
  /\ batch_members' = Append(batch_members, Consumed + 1)
  /\ batch_duration' = TotalWithCandidate

C22_Decision ==
  (AllPositive /\ CandidateConsidered) =>
     IF RatGT(TotalWithCandidate, Maximum) THEN CandidateRejected
                                           ELSE CandidateAccepted

(* C22: when every segment has at least one sample, a candidate considered *)
(* after the first member of a batch is left for the next batch if and     *)
(* only if the batch's duration plus the candidate's is strictly greater   *)
(* than the maximum; a candidate that brings the total to exactly the      *)
(* maximum is accepted.                                                    *)
C22_StrictlyGreater == [][C22_Decision]_vars

\* Segments of 14 s, 15 s and one sample: the second one filled the first
\* batch to exactly the maximum, the third one was left for a second batch.
C22_Witness ==
  /\ BatchingDone
  /\ sample_rate = 2
  /\ SegLens = <<28, 30, 1>>
  /\ Len(batches) = 2
  /\ batches[1].members = <<1, 2>>
  /\ batches[1].duration = Maximum
  /\ batches[2].members = <<3>>

(* C28: for every two consecutive batches, the duration of the earlier one *)
(* plus the duration of the first member of the later one is strictly      *)
(* greater than the maximum: a batch is closed only when the next segment  *)
(* would not fit.                                                          *)
C28_GreedyMaximal ==
  \A k \in 1..(Len(AllBatches) - 1) :
     Len(AllBatches[k + 1].members) >= 1 =>
        RatGT(RatAdd(AllBatches[k].duration,
                     SegDuration(AllBatches[k + 1].members[1])), Maximum)

\* Three batches came out of three segments, none of which fits with the
\* next one.
C28_Witness ==
  /\ BatchingDone
  /\ AllPositive
  /\ Len(batches) = 3
  /\ SegLens = <<15 * sample_rate, 15 * sample_rate, 15 * sample_rate>>

\* What the claim compares of a batch list: the count, and per batch the
\* members, the start time and the duration.
BatchSummary(bs) ==
  [k \in 1..Len(bs) |-> [members |-> bs[k].members,
                         start_time |-> bs[k].start_time,
                         duration |-> bs[k].duration]]

----------------------------------------------------------------------------
(* The detector adapter: first pass of transcribe_with_vad_ *)

\* The entries of vad_log that are calls of the kind named.
CallsOf(kind) == SelectSeq(vad_log, LAMBDA e : e.call = kind)

\* The places in vad_log of the feed and flush calls.
FeedPlaces == {k \in 1..Len(vad_log) : vad_log[k].call \in {"AcceptWaveform", "Flush"}}

\* Every segment the detector made ready, in the order it made them ready.
Emitted ==
  Flatten([k \in 1..Len(vad_log) |->
             IF vad_log[k].call \in {"AcceptWaveform", "Flush"}
               THEN vad_log[k].ready ELSE <<>>])

\* The first pass is over.
FirstPassOver == pc \in {"cpp_outer", "cpp_inner", "done"}

\* N / w rounded up.
Ceil(n, w) == (n + w - 1) \div w

(* C21: when the detector cannot be constructed the call ends with the     *)
(* error "Failed to create VAD instance": nothing is fed, nothing is       *)
(* flushed, no stream is created, nothing is returned, and no step         *)
(* follows.                                                                *)
C21_DetectorInitFatal ==
  /\ [](vad = "null" =>
          /\ pc = "error"
          /\ error = "Failed to create VAD instance"
          /\ vad_log = <<VadCreate>>
          /\ calls.AcceptWaveform = 0
          /\ calls.Flush = 0
          /\ num_streams = 0
          /\ recognized = <<>>
          /\ result = NoResult)
  /\ [][pc # "error" /\ vad # "null"]_vars

\* A call with a recognizer and samples got no detector.
C21_Witness ==
  /\ vad = "null"
  /\ pc = "error"
  /\ request.recognizer_ptr # "null"
  /\ samples_size = MaxSamples

(* C23: the flush is issued only when fewer than window_size samples are   *)
(* left unfed, so that floor(N / window_size) windows have been fed when   *)
(* the flush is issued, the last one included when window_size divides N.  *)
C23_EveryFullWindowFed ==
  (impl = "cpp" /\ vad_window_size >= 1 /\ is_eof) =>
    /\ calls.AcceptWaveform = samples_size \div vad_window_size
    /\ samples_size - vad_window_size * calls.AcceptWaveform < vad_window_size

(* C24: the flush is issued at most once, exactly once in a first pass     *)
(* that is over, and no feed call follows it; whenever the adapter is      *)
(* about to feed, flush or stop, the detector's queue is empty; the        *)
(* segments collected are the segments the detector made ready, each once  *)
(* and in that order, and all of them once the first pass is over.         *)
C24_DrainedInOrder ==
  impl = "cpp" =>
    /\ calls.Flush <= 1
    /\ Len(CallsOf("Flush")) = calls.Flush
    /\ is_eof <=> calls.Flush = 1
    /\ \A k \in FeedPlaces : vad_log[k].call = "Flush" => \A j \in FeedPlaces : j <= k
    /\ pc = "cpp_feed" => vad_queue = <<>>
    /\ vad_segments \o vad_queue = Emitted
    /\ [k \in 1..Len(CallsOf("Pop")) |-> CallsOf("Pop")[k].start_sample]
         = [k \in 1..Len(vad_segments) |-> vad_segments[k].start_sample]
    /\ FirstPassOver =>
          /\ calls.Flush = 1
          /\ vad_queue = <<>>
          /\ vad_segments = Emitted

\* A feed call made one segment ready and the flush two, and the three
\* were collected.
C24_Witness ==
  /\ FirstPassOver
  /\ Len(vad_segments) = 3
  /\ \E k \in FeedPlaces : vad_log[k].call = "AcceptWaveform" /\ Len(vad_log[k].ready) = 1
  /\ \E k \in FeedPlaces : vad_log[k].call = "Flush" /\ Len(vad_log[k].ready) = 2

(* C25: the detector lives inside one call: it is constructed first and    *)
(* once, destroyed at most once, and the destroy is the last call made on  *)
(* it, after the last segment was collected; it has been destroyed, once,  *)
(* when the second pass runs, so before the first stream is created and    *)
(* when the call returns.                                                  *)
C25_DetectorLifetime ==
  impl = "cpp" =>
    /\ calls.CreateVoiceActivityDetector <= 1
    /\ calls.DestroyVoiceActivityDetector <= 1
    /\ vad_log # <<>> =>
          /\ vad_log[1] = VadCreate
          /\ \A k \in 2..Len(vad_log) : vad_log[k] # VadCreate
    /\ \A k \in 1..Len(vad_log) : vad_log[k] = VadDestroy => k = Len(vad_log)
    /\ vad = "destroyed" <=> (vad_log # <<>> /\ vad_log[Len(vad_log)] = VadDestroy)
    /\ vad = "destroyed" =>
          /\ calls.DestroyVoiceActivityDetector = 1
          /\ is_eof
          /\ vad_queue = <<>>
    /\ vad = "live" =>
          /\ num_streams = 0
          /\ pc \in {"cpp_feed", "cpp_drain"}
    /\ (FirstPassOver \/ num_streams > 0) => vad = "destroyed"

\* The call returned after two feed calls and a recognition.
C25_Witness ==
  /\ pc = "done"
  /\ vad = "destroyed"
  /\ calls.AcceptWaveform = 2
  /\ num_streams = 1
  /\ Len(vad_segments) >= 1

(* C27: for N >= 1 samples and a window w >= 1 the feed loop makes         *)
(* ceil(N / w) turns and ends: its turns never exceed that number, and     *)
(* when it has ended it has made ceil(N / w) - 1 feed calls and then one   *)
(* flush; feed call k (from 0) reads the w samples from k * w, all inside  *)
(* the waveform, and between 1 and w samples at the end are never fed.     *)
C27_FeedLoopTurns ==
  (impl = "cpp" /\ samples_size >= 1 /\ vad_window_size >= 1) =>
    LET turns == Ceil(samples_size, vad_window_size)
        feeds == CallsOf("AcceptWaveform")
        unfed == samples_size - vad_window_size * calls.AcceptWaveform
    IN /\ Len(feeds) = calls.AcceptWaveform
       /\ calls.AcceptWaveform + calls.Flush <= turns
       /\ \A k \in 1..Len(feeds) :
            /\ feeds[k].from = (k - 1) * vad_window_size
            /\ feeds[k].n = vad_window_size
            /\ feeds[k].from + feeds[k].n <= samples_size
       /\ pc = "cpp_feed" => i = vad_window_size * (calls.AcceptWaveform + calls.Flush)
       /\ (pc = "cpp_feed" /\ ~is_eof) =>
            calls.AcceptWaveform + calls.Flush < turns
       /\ is_eof =>
            /\ calls.AcceptWaveform = turns - 1
            /\ calls.Flush = 1
            /\ vad_log[Len(vad_log)].call # "AcceptWaveform"
            /\ unfed >= 1
            /\ unfed <= vad_window_size

\* Six samples in windows of three: one feed call, then the flush with the
\* last three samples never fed.
C27_Witness ==
  /\ samples_size = 6
  /\ vad_window_size = 3
  /\ calls.AcceptWaveform = 1
  /\ calls.Flush = 1
  /\ vad_log[Len(vad_log)] = VadDestroy

----------------------------------------------------------------------------
(* The recognition sessions of the per-batch driver *)

\* The engine calls of the run so far, in order.
EngineLog == Flatten([k \in 1..Len(recognized) |-> recognized[k].session])

\* What a call adds to the streams and to the results that exist.
StreamDelta(call) ==
  CASE call = "CreateOfflineStream" -> 1
    [] call = "DestroyOfflineStream" -> -1
    [] OTHER -> 0
ResultDelta(call) ==
  CASE call = "GetOfflineStreamResult" -> 1
    [] call = "DestroyOfflineRecognizerResult" -> -1
    [] OTHER -> 0

\* The call that has to come right before each call of a session; a stream is
\* asked for at the start or right after the last stream was destroyed.
ComesAfter(call) ==
  CASE call = "AcceptWaveformOffline" -> "CreateOfflineStream"
    [] call = "DecodeOfflineStream" -> "AcceptWaveformOffline"
    [] call = "GetOfflineStreamResult" -> "DecodeOfflineStream"
    [] call = "DestroyOfflineRecognizerResult" -> "GetOfflineStreamResult"
    [] call = "DestroyOfflineStream" -> "DestroyOfflineRecognizerResult"
    [] OTHER -> "DestroyOfflineStream"

\* From call n on, with so many streams and results in existence: every call
\* comes right after the call it has to follow, never more than one stream
\* or one result exists, a result only with its stream, and at the end of
\* the log nothing is left.
RECURSIVE SessionsFrom(_, _, _, _)
SessionsFrom(log, n, streams, results) ==
  IF n > Len(log) THEN streams = 0 /\ results = 0
  ELSE LET s == streams + StreamDelta(log[n])
           r == results + ResultDelta(log[n])
       IN /\ s \in {0, 1}
          /\ r \in {0, 1}
          /\ r <= s
          /\ IF n = 1 THEN ComesAfter(log[n]) = "DestroyOfflineStream"
                      ELSE log[n - 1] = ComesAfter(log[n])
          /\ SessionsFrom(log, n + 1, s, r)

\* How often the call is in the log.
EngineCount(log, call) == Cardinality({n \in 1..Len(log) : log[n] = call})

\* Batches the driver has been through with a result.
BatchesDecoded == IF impl = "cpp" THEN batch_count ELSE Len(batch_results)

(* C26: the driver runs one fresh recognition session per batch, in the    *)
(* order create stream, feed waveform, decode, read result, destroy        *)
(* (result, then stream); at most one stream and one result exist at any   *)
(* time, a stream is created only after the one before it was destroyed,   *)
(* and between two batches and when the pipeline returns or stops every    *)
(* stream and result created has been destroyed exactly once.              *)
C26_Sessions ==
  Pipeline =>
    LET log == EngineLog
    IN /\ SessionsFrom(log, 1, 0, 0)
       /\ EngineCount(log, "CreateOfflineStream") = BatchesDecoded
       /\ EngineCount(log, "DestroyOfflineStream") = BatchesDecoded
       /\ EngineCount(log, "DestroyOfflineRecognizerResult") = BatchesDecoded

\* transcribe_with_vad_ returned after two batches, each decoded in a session
\* of its own.
C26_Witness ==
  /\ impl = "cpp"
  /\ pc = "done"
  /\ batch_count = 2
  /\ result # NoResult
  /\ Len(EngineLog) = 12
  /\ EngineLog[6] = "DestroyOfflineStream"
  /\ EngineLog[7] = "CreateOfflineStream"
  /\ EngineLog[12] = "DestroyOfflineStream"

----------------------------------------------------------------------------
(* The recognizer handle: create, use, destroy_recognizer_ and finalizer *)

\* Most calls made on one handle after its creation.
MaxEvents == 4

\* The entry points that take the handle and read its address first.
TranscribeCalls == {"transcribe_wav_", "transcribe_samples_", "transcribe_with_vad_"}

\* What no event on the handle writes.
handle_unchanged ==
  <<impl, sample_rate, vad_segments, seg_idx, batch_samples,
    batch_start_sample, batch_start_time, batch_duration, batch_members,
    batches, batch_count, batch_texts, batch_start_times, batch_durations,
    lapply_i, batch_results, result, num_streams, recognized, max_arg,
    request, vad_args, calls, samples_size, vad_window_size, i, is_eof, vad,
    vad_queue, vad_log>>

\* external_pointer ptr(recognizer, true, delete_recognizer): the address of
\* the external pointer, the engine's object behind it, how often
\* SherpaOnnxDestroyOfflineRecognizer was called on it, and the calls made
\* on the handle so far.
NewHandle ==
  [addr |-> "recognizer", engine |-> "live", destroys |-> 0, log |-> <<>>]

\* One call on the handle: which entry point, the state of the recognizer it
\* handed to the engine ("none": the engine was not called with it), whether
\* it called SherpaOnnxDestroyOfflineRecognizer, and how it ended.
HandleEvent(call, engine_arg, destroyed, message) ==
  [call |-> call, engine_arg |-> engine_arg, destroyed |-> destroyed,
   error |-> message]

\* The stop() of an entry point whose arguments fail the checks made between
\* the pointer test and the first engine call with the recognizer.
ArgumentError(call) ==
  IF call = "transcribe_wav_" THEN "Invalid WAV file" ELSE "Empty audio samples"

\* SherpaOnnxCreateOfflineRecognizer returned nullptr.
HandleCreateFailed ==
  /\ pc = "handle_none"
  /\ error' = "Failed to create offline recognizer. Please check your model files."
  /\ pc' = "error"
  /\ UNCHANGED <<handle_unchanged, handle>>

\* create_offline_recognizer_ returns the external pointer.
HandleCreate ==
  /\ pc = "handle_none"
  /\ handle' = NewHandle
  /\ pc' = "handle_held"
  /\ UNCHANGED <<handle_unchanged, error>>

\* if (recognizer.get() == nullptr) stop("Invalid recognizer pointer"), in
\* transcribe_wav_, transcribe_samples_ and transcribe_with_vad_.
HandleTranscribeInvalid ==
  /\ pc = "handle_held"
  /\ Len(handle.log) < MaxEvents
  /\ handle.addr = "null"
  /\ \E call \in TranscribeCalls :
       handle' = [handle EXCEPT !.log =
                    Append(@, HandleEvent(call, "none", FALSE, "Invalid recognizer pointer"))]
  /\ error' = "Invalid recognizer pointer"
  /\ UNCHANGED <<handle_unchanged, pc>>

\* The address is set, the arguments fail a check: stop() before the engine
\* sees the recognizer.
HandleTranscribeStop ==
  /\ pc = "handle_held"
  /\ Len(handle.log) < MaxEvents
  /\ handle.addr # "null"
  /\ \E call \in TranscribeCalls :
       /\ handle' = [handle EXCEPT !.log =
                       Append(@, HandleEvent(call, "none", FALSE, ArgumentError(call)))]
       /\ error' = ArgumentError(call)
  /\ UNCHANGED <<handle_unchanged, pc>>

\* The address is set and the arguments pass: recognizer.get() goes to
\* SherpaOnnxCreateOfflineStream and SherpaOnnxDecodeOfflineStream.
HandleTranscribe ==
  /\ pc = "handle_held"
  /\ Len(handle.log) < MaxEvents
  /\ handle.addr # "null"
  /\ \E call \in TranscribeCalls :
       handle' = [handle EXCEPT !.log =
                    Append(@, HandleEvent(call, handle.engine, FALSE, NoError))]
  /\ error' = NoError
  /\ UNCHANGED <<handle_unchanged, pc>>

\* Bug: the address is left in the external pointer after the destroy.
Destroyed_NotReleased(h) ==
  [h EXCEPT !.engine = "destroyed", !.destroys = @ + 1]

\* SherpaOnnxDestroyOfflineRecognizer(recognizer.get()); recognizer.release();
Destroyed(h) ==
  [h EXCEPT !.engine = "destroyed", !.destroys = @ + 1, !.addr = "null"]

\* destroy_recognizer_ on a handle whose address is set.
HandleDestroy ==
  /\ pc = "handle_held"
  /\ Len(handle.log) < MaxEvents
  /\ handle.addr # "null"
  /\ handle' = [Destroyed(handle) EXCEPT !.log =
                  Append(@, HandleEvent("destroy_recognizer_", handle.engine, TRUE, NoError))]
  /\ error' = NoError
  /\ UNCHANGED <<handle_unchanged, pc>>

\* destroy_recognizer_ on a handle whose address is cleared: nothing is done.
HandleDestroyAgain ==
  /\ pc = "handle_held"
  /\ Len(handle.log) < MaxEvents
  /\ handle.addr = "null"
  /\ handle' = [handle EXCEPT !.log =
                  Append(@, HandleEvent("destroy_recognizer_", "none", FALSE, NoError))]
  /\ error' = NoError
  /\ UNCHANGED <<handle_unchanged, pc>>

\* The finalizer of the external pointer runs on a handle whose address is
\* set, once R holds no reference to it: the address is cleared and the
\* deleter runs. The deleter is delete_recognizer where the third argument
\* of the constructor installs it, and the default deleter of
\* external_pointer (delete, on a type the file only declares) where that
\* argument is read as the flag finalize_on_exit.
HandleFinalize ==
  /\ pc = "handle_held"
  /\ handle.addr # "null"
  /\ \/ handle' = [Destroyed(handle) EXCEPT !.log =
                      Append(@, HandleEvent("finalizer", handle.engine, TRUE, NoError))]
     \/ handle' = [handle EXCEPT !.addr = "null", !.engine = "deleted", !.log =
                      Append(@, HandleEvent("finalizer", "none", FALSE, NoError))]
  /\ pc' = "handle_collected"
  /\ UNCHANGED <<handle_unchanged, error>>

\* The finalizer runs on a handle whose address is cleared: it returns.
HandleFinalizeCleared ==
  /\ pc = "handle_held"
  /\ handle.addr = "null"
  /\ handle' = [handle EXCEPT !.log =
                  Append(@, HandleEvent("finalizer", "none", FALSE, NoError))]
  /\ pc' = "handle_collected"
  /\ UNCHANGED <<handle_unchanged, error>>

InitHandle ==
  /\ impl = "cpp"
  /\ pc = "handle_none"
  /\ sample_rate = 1
  /\ vad_segments = <<>>
  /\ seg_idx = 0
  /\ InitLocals
  /\ InitEntry

NextHandle ==
  \/ HandleCreateFailed
  \/ HandleCreate
  \/ HandleTranscribeInvalid
  \/ HandleTranscribeStop
  \/ HandleTranscribe
  \/ HandleDestroy
  \/ HandleDestroyAgain
  \/ HandleFinalize
  \/ HandleFinalizeCleared

SpecHandle == InitHandle /\ [][NextHandle]_vars

----------------------------------------------------------------------------
(* The life of a recognizer handle *)

\* The handle exists.
HandleCreated == handle # NoHandle

\* Call k on the handle is one of the transcribe entry points.
IsTranscribe(k) == handle.log[k].call \in TranscribeCalls

\* Call k on the handle called the engine's destroy function.
CalledDestroy(k) == handle.log[k].destroyed

\* The first call on the handle that destroyed the recognizer, or 0.
FirstDestroy ==
  LET ks == {k \in 1..Len(handle.log) : CalledDestroy(k)}
  IN IF ks = {} THEN 0 ELSE CHOOSE k \in ks : \A m \in ks : k <= m

(* C30: over any sequence of calls on one recognizer handle (the three     *)
(* transcribe entry points, destroy_recognizer_, the finalizer), the       *)
(* engine's destroy function is called at most once for the recognizer: a  *)
(* destroy_recognizer_ or a finalizer that comes after a destroy does      *)
(* nothing; and every transcribe call made after the destroy stops with    *)
(* "Invalid recognizer pointer" and hands no recognizer to the engine. No  *)
(* call hands the engine a recognizer that is no longer live.              *)
C30_HandleLifecycle ==
  HandleCreated =>
    /\ handle.destroys <= 1
    /\ Cardinality({k \in 1..Len(handle.log) : CalledDestroy(k)}) = handle.destroys
    /\ \A k \in 1..Len(handle.log) :
          /\ handle.log[k].engine_arg \in {"none", "live"}
          /\ (FirstDestroy # 0 /\ k > FirstDestroy) =>
                /\ ~CalledDestroy(k)
                /\ handle.log[k].engine_arg = "none"
                /\ IsTranscribe(k) => handle.log[k].error = "Invalid recognizer pointer"

\* A transcribe call that reached the engine, destroy_recognizer_, a
\* transcribe call that was refused, destroy_recognizer_ again, then the
\* finalizer.
C30_Witness ==
  /\ HandleCreated
  /\ pc = "handle_collected"
  /\ Len(handle.log) = 5
  /\ handle.log[1].call = "transcribe_samples_" /\ handle.log[1].engine_arg = "live"
  /\ handle.log[2].call = "destroy_recognizer_" /\ handle.log[2].destroyed
  /\ handle.log[3].call = "transcribe_with_vad_"
  /\ handle.log[3].error = "Invalid recognizer pointer"
  /\ handle.log[4].call = "destroy_recognizer_" /\ ~handle.log[4].destroyed
  /\ handle.log[5].call = "finalizer" /\ ~handle.log[5].destroyed
  /\ handle.destroys = 1

============================================================================
